---- MODULE Spec2Model ----
(***************************************************************************)
(* Session persistence and synchronisation core of the contract-review     *)
(* client: the chunking layer over SecureStore (app/utils/storage.ts), the *)
(* local session list and the session orchestrator                         *)
(* (app/contexts/SessionContext.tsx).                                      *)
(*                                                                         *)
(* The specifications share the variables:                                 *)
(*   SpecStore      the chunking layer, one SecureStore call a step        *)
(*   SpecStoreHist  the same with the values of all puts recorded          *)
(*   SpecRepo       the local session list (saveSessionLocally and others) *)
(*   Spec           the orchestrator: uploads, loads, term operations,     *)
(*                  clearSession, restarts, one operation at a time        *)
(*   SpecUpload     uploads with the progress interval running             *)
(*   SpecTerms      two term operations at a time on a loaded session      *)
(*   SpecFeedback   two expert feedback submissions at a time              *)
(*   SpecStats      complianceStats over the term lists of a session       *)
(*   SpecStoreFaults  the chunking layer with failing SecureStore calls    *)
(*   SpecRepoFaults   the local session list with failing storage          *)
(*   SpecRepoLog    the local session list over a stored interaction log   *)
(*   SpecSnapshot   loads from the history, saveSessionData runs, restarts *)
(***************************************************************************)
EXTENDS Integers, Sequences, FiniteSets, TLC

(***************************************************************************)
(* Bounds.  ChunkSize stands for the 2000 of storage.ts:72-73 and          *)
(* MaxStoredSessions for the 20 of SessionContext.tsx:308, both scaled     *)
(* down so that every value and every list can be enumerated.              *)
(***************************************************************************)
ChunkSize == 2

MaxLen == 5

MaxPuts == 2

MaxStoredSessions == 3

MaxRepoCalls == 3

Alphabet == {"a", "b"}

(***************************************************************************)
(* Strings are sequences of one-character strings.  NULL is JavaScript's   *)
(* null: what SecureStore.getItemAsync gives for a key that is not there.  *)
(***************************************************************************)
NULL == <<"null">>

Truthy(s) == s # NULL /\ s # <<>>

Min(a, b) == IF a < b THEN a ELSE b

Values == UNION {[1..n -> Alphabet] : n \in 0..MaxLen}

(***************************************************************************)
(* The names of the primitive entries of the one logical key "k":          *)
(* `k`, `k_chunks` and `k_chunk_${i}`.                                     *)
(***************************************************************************)
DirectKey == <<"k">>

ManifestKey == <<"k", "chunks">>

ChunkKey(i) == <<"k", "chunk", i>>

VARIABLES
    secureStore,   \* SecureStore: a function from the keys present to strings
    sop,           \* the storage call in progress and its position
    getResult,     \* what getItemAsync returned since the last write, if called
    putLog,        \* SpecStoreHist: the values setItemAsync was called with;
                   \* SpecStoreFaults: what the key held when the last one began
    disk,          \* storage, by storageKeys name: <<>> absent, <<v>> present
    sessionInteractions,  \* useState: the interaction log, newest first
    rcalls,        \* SpecRepo: list calls between their read and their write
    event,         \* the last handler step taken, with what it returned
    budget,        \* calls the user may still start
    st,            \* SessionProvider's useState values, by name
    calls,         \* orchestrator calls suspended at an await
    timers,        \* progress intervals set and not yet cleared
    clears,        \* clearSession calls before their 1st, 2nd, 3rd delete
    saves,         \* saveSessionData runs in progress
    afterClear     \* clearSession ran during an upload, no call started since

storeVars == <<secureStore, sop, getResult, putLog>>

repoVars == <<rcalls>>

sharedVars == <<disk, sessionInteractions, event, budget>>

sessVars == <<st, calls, timers, clears, saves, afterClear>>

vars == <<storeVars, repoVars, sharedVars, sessVars>>

\* What a specification of one layer leaves alone.
StoreOnly == UNCHANGED <<repoVars, sharedVars, sessVars>>

(***************************************************************************)
(* SecureStore primitives.                                                 *)
(***************************************************************************)
SecureGet(store, key) == IF key \in DOMAIN store THEN store[key] ELSE NULL

SecureSet(store, key, value) ==
    [x \in DOMAIN store \cup {key} |-> IF x = key THEN value ELSE store[x]]

SecureDelete(store, key) == [x \in DOMAIN store \ {key} |-> store[x]]

(***************************************************************************)
(* chunks.length.toString() and parseInt(chunkInfo, 10).  parseInt reads   *)
(* the leading digits; with none it gives NaN, under which the loops       *)
(* `i < chunkCount` run no iteration: NaN is modelled as -1.               *)
(***************************************************************************)
Digits == <<"0", "1", "2", "3", "4", "5", "6", "7", "8", "9">>

DigitValue(c) == (CHOOSE d \in 1..10 : Digits[d] = c) - 1

IsDigit(c) == \E d \in 1..10 : Digits[d] = c

RECURSIVE toString(_)
toString(n) ==
    IF n < 10 THEN <<Digits[n + 1]>>
    ELSE toString(n \div 10) \o <<Digits[(n % 10) + 1]>>

RECURSIVE ParseDigits(_, _, _)
ParseDigits(s, pos, acc) ==
    IF pos > Len(s) \/ ~IsDigit(s[pos]) THEN acc
    ELSE ParseDigits(s, pos + 1, acc * 10 + DigitValue(s[pos]))

parseInt(s) ==
    IF Len(s) = 0 \/ ~IsDigit(s[1]) THEN -1 ELSE ParseDigits(s, 1, 0)

(***************************************************************************)
(* setItemAsync, lines 76-78: value.slice(i, i + chunkSize) for            *)
(* i = 0, chunkSize, 2*chunkSize, ... < value.length.                      *)
(***************************************************************************)
NumChunks(value) == (Len(value) + ChunkSize - 1) \div ChunkSize

\* Mutant: the loop bound rounded down, the last partial chunk lost.
ChunksWithoutTail(value) ==
    [j \in 1..(Len(value) \div ChunkSize) |->
        SubSeq(value, (j - 1) * ChunkSize + 1, j * ChunkSize)]

\* Mutant: the value is not sliced, the one chunk is the whole value.
ChunksUnsliced(value) == <<value>>

Chunks(value) ==
    [j \in 1..NumChunks(value) |->
        SubSeq(value, (j - 1) * ChunkSize + 1, Min(j * ChunkSize, Len(value)))]

(***************************************************************************)
(* getItemAsync: the manifest first; if it is there, the chunks            *)
(* 0..count-1 in order, a missing or empty one skipped; else the direct    *)
(* entry.                                                                  *)
(***************************************************************************)
RECURSIVE ReadChunks(_, _, _)
ReadChunks(store, i, chunkCount) ==
    IF i >= chunkCount THEN <<>>
    ELSE LET chunk == SecureGet(store, ChunkKey(i))
         IN  (IF Truthy(chunk) THEN chunk ELSE <<>>)
                 \o ReadChunks(store, i + 1, chunkCount)

getItemAsync(store) ==
    LET chunkInfo == SecureGet(store, ManifestKey)
    IN  IF Truthy(chunkInfo)
        THEN ReadChunks(store, 0, parseInt(chunkInfo))
        ELSE SecureGet(store, DirectKey)

(***************************************************************************)
(* The chunking layer, one SecureStore call a step.  sop.name is the       *)
(* storage call in progress ("set", "delete", "get"), sop.pc the primitive *)
(* call it will make next, sop.i the loop counter and sop.chunkCount the   *)
(* count deleteChunks parsed from the manifest.                            *)
(***************************************************************************)
StoreIdle == sop.pc \in {"idle", "done", "failed"}

\* getResult before any getItemAsync has followed the last write.
UNREAD == <<"unread">>

\* setItemAsync, line 72: the branch taken on value.length.
SetItemCall(value) ==
    /\ StoreIdle
    /\ sop' = [name |-> "set",
               pc |-> IF Len(value) > ChunkSize THEN "set_manifest" ELSE "dc_read",
               value |-> value, i |-> 0, chunkCount |-> 0]
    /\ getResult' = UNREAD
    /\ UNCHANGED secureStore
    /\ StoreOnly

SetItemBegin(value) == SetItemCall(value) /\ UNCHANGED putLog

\* The same call, with what getItemAsync would have returned before it kept
\* for comparison.
SetItemOver(value) == SetItemCall(value) /\ putLog' = {getItemAsync(secureStore)}

\* line 81: the chunk count is stored first.
SetManifest ==
    /\ sop.pc = "set_manifest"
    /\ secureStore' = SecureSet(secureStore, ManifestKey,
                                toString(Len(Chunks(sop.value))))
    /\ sop' = [sop EXCEPT !.pc = "set_chunk", !.i = 0]
    /\ UNCHANGED <<getResult, putLog>>
    /\ StoreOnly

\* lines 84-86: one chunk per call.
SetChunk ==
    /\ sop.pc = "set_chunk"
    /\ sop.i < Len(Chunks(sop.value))
    /\ secureStore' = SecureSet(secureStore, ChunkKey(sop.i),
                                Chunks(sop.value)[sop.i + 1])
    /\ sop' = [sop EXCEPT !.i = sop.i + 1,
                          !.pc = IF sop.i + 1 < Len(Chunks(sop.value))
                                 THEN "set_chunk" ELSE "set_cleanup"]
    /\ UNCHANGED <<getResult, putLog>>
    /\ StoreOnly

\* lines 88-93: the old single value is removed last.
SetCleanupDirect ==
    /\ sop.pc = "set_cleanup"
    /\ secureStore' = SecureDelete(secureStore, DirectKey)
    /\ sop' = [sop EXCEPT !.pc = "done"]
    /\ UNCHANGED <<getResult, putLog>>
    /\ StoreOnly

\* Where deleteChunks returns to: line 97 of setItemAsync, or the end of
\* deleteItemAsync.
AfterDeleteChunks(op) ==
    IF op.name = "set" THEN [op EXCEPT !.pc = "set_direct"]
    ELSE [op EXCEPT !.pc = "done"]

\* deleteChunks, lines 117-119: read and parse the manifest.
DeleteChunksRead ==
    /\ sop.pc = "dc_read"
    /\ LET chunkInfo  == SecureGet(secureStore, ManifestKey)
           chunkCount == parseInt(chunkInfo)
       IN  IF Truthy(chunkInfo)
           THEN sop' = [sop EXCEPT !.chunkCount = chunkCount, !.i = 0,
                            !.pc = IF 0 < chunkCount THEN "dc_chunk"
                                   ELSE "dc_manifest"]
           ELSE sop' = AfterDeleteChunks(sop)
    /\ UNCHANGED <<secureStore, getResult, putLog>>
    /\ StoreOnly

\* lines 122-128: the chunks 0..chunkCount-1 the manifest names.
DeleteChunk ==
    /\ sop.pc = "dc_chunk"
    /\ secureStore' = SecureDelete(secureStore, ChunkKey(sop.i))
    /\ sop' = [sop EXCEPT !.i = sop.i + 1,
                          !.pc = IF sop.i + 1 < sop.chunkCount
                                 THEN "dc_chunk" ELSE "dc_manifest"]
    /\ UNCHANGED <<getResult, putLog>>
    /\ StoreOnly

\* Mutant: deleteChunks returns without deleting the manifest.
DeleteManifestSkipped ==
    /\ sop.pc = "dc_manifest"
    /\ sop' = AfterDeleteChunks(sop)
    /\ UNCHANGED <<secureStore, getResult, putLog>>
    /\ StoreOnly

\* line 131: the manifest goes last.
DeleteManifest ==
    /\ sop.pc = "dc_manifest"
    /\ secureStore' = SecureDelete(secureStore, ManifestKey)
    /\ sop' = AfterDeleteChunks(sop)
    /\ UNCHANGED <<getResult, putLog>>
    /\ StoreOnly

\* line 97: the value as a single entry.
SetDirect ==
    /\ sop.pc = "set_direct"
    /\ secureStore' = SecureSet(secureStore, DirectKey, sop.value)
    /\ sop' = [sop EXCEPT !.pc = "done"]
    /\ UNCHANGED <<getResult, putLog>>
    /\ StoreOnly

\* deleteItemAsync, line 107, then deleteChunks.
DeleteItemBegin ==
    /\ StoreIdle
    /\ sop' = [name |-> "delete", pc |-> "del_direct", value |-> <<>>,
               i |-> 0, chunkCount |-> 0]
    /\ getResult' = UNREAD
    /\ UNCHANGED <<secureStore, putLog>>
    /\ StoreOnly

DeleteDirect ==
    /\ sop.pc = "del_direct"
    /\ secureStore' = SecureDelete(secureStore, DirectKey)
    /\ sop' = [sop EXCEPT !.pc = "dc_read"]
    /\ UNCHANGED <<getResult, putLog>>
    /\ StoreOnly

\* getItemAsync after a completed write: reads and writes of a key do not
\* overlap.  sop keeps the write the read follows.
GetItem ==
    /\ StoreIdle
    /\ getResult' = getItemAsync(secureStore)
    /\ UNCHANGED <<secureStore, sop, putLog>>
    /\ StoreOnly

(***************************************************************************)
(* A SecureStore call rejects.  The catch blocks decide what the storage   *)
(* call does next: sop.pc = "failed" is the error thrown on to the caller. *)
(***************************************************************************)
\* The SecureStore calls inside deleteChunks.
CleanupPcs == {"dc_read", "dc_chunk", "dc_manifest"}

\* setItemAsync and deleteItemAsync: lines 99-102 and 109-112 throw the
\* error on; 89-93 ignore it; in deleteChunks, 124-128 go on with the next
\* chunk and 133-135 return.
AfterThrow(op) ==
    IF op.pc \in {"set_manifest", "set_chunk", "set_direct", "del_direct"}
    THEN [op EXCEPT !.pc = "failed"]
    ELSE IF op.pc = "set_cleanup" THEN [op EXCEPT !.pc = "done"]
    ELSE IF op.pc = "dc_chunk"
    THEN [op EXCEPT !.i = op.i + 1,
                    !.pc = IF op.i + 1 < op.chunkCount
                           THEN "dc_chunk" ELSE "dc_manifest"]
    ELSE AfterDeleteChunks(op)

PrimitiveThrows ==
    /\ ~StoreIdle
    /\ sop' = AfterThrow(sop)
    /\ UNCHANGED <<secureStore, getResult, putLog>>
    /\ StoreOnly

\* getItemAsync, lines 62-65: a SecureStore.getItemAsync that rejects is
\* caught and null returned.
GetItemThrows ==
    /\ StoreIdle
    /\ getResult' = NULL
    /\ UNCHANGED <<secureStore, sop, putLog>>
    /\ StoreOnly

(***************************************************************************)
(* Absent and present: an optional field or entry is <<>> or <<v>>.        *)
(***************************************************************************)
None == <<>>

Some(v) == <<v>>

\* Session identifiers are 1, 2, ...; 0 stands for null.
SessionIds == 1..(MaxStoredSessions + 1)

TermIds == {"t1", "t2"}

SHARIAA_SESSIONS == "shariaa_sessions"

SESSION_INTERACTIONS == "shariaa_session_interactions"

CURRENT_SESSION_ID == "current_session_id"

CURRENT_ANALYSIS_TERMS == "current_analysis_terms"

CURRENT_SESSION_DETAILS == "current_session_details"

storageKeys ==
    {SHARIAA_SESSIONS, SESSION_INTERACTIONS, CURRENT_SESSION_ID,
     CURRENT_ANALYSIS_TERMS, CURRENT_SESSION_DETAILS}

\* storage.setItemAsync / deleteItemAsync on the logical keys: the chunking
\* layer as one step (its own steps are SpecStore's).
StorageSet(d, key, value) == [d EXCEPT ![key] = Some(value)]

StorageDelete(d, key) == [d EXCEPT ![key] = None]

(***************************************************************************)
(* The local session list.  A stored record keeps its fields as the JSON   *)
(* text does: a field that was undefined is absent.  JsonLength is the     *)
(* length of JSON.stringify(list) in the units of ListLimit, which stands  *)
(* for the 2000 of line 312.                                               *)
(***************************************************************************)
ListLimit == 12

RECURSIVE SumOver(_, _)
SumOver(f, n) == IF n = 0 THEN 0 ELSE f[n] + SumOver(f, n - 1)

RecordLength(r) ==
    2 + (IF r.analysis_results = None THEN 0
         ELSE 1 + Len(r.analysis_results[1]))
      + (IF r.isBookmarked = None THEN 0 ELSE 1)

JsonLength(list) ==
    2 + SumOver([i \in 1..Len(list) |-> RecordLength(list[i])], Len(list))

Ids(list) == [i \in 1..Len(list) |-> list[i].session_id]

\* sessionInteractions.filter(i => i.sessionId === sessionId)
getSessionInteractions(log, sid) == SelectSeq(log, LAMBDA i : i.sessionId = sid)

\* lines 253-261: the stored list, or [] when the key is absent.
getLocalSessions(d) ==
    IF d[SHARIAA_SESSIONS] = None THEN <<>> ELSE d[SHARIAA_SESSIONS][1]

\* findIndex: the first index with the identifier, 0 for -1.
FindIndex(sessions, sid) ==
    IF \E i \in 1..Len(sessions) : sessions[i].session_id = sid
    THEN CHOOSE i \in 1..Len(sessions) :
            /\ sessions[i].session_id = sid
            /\ \A j \in 1..(i - 1) : sessions[j].session_id # sid
    ELSE 0

\* lines 272-295: the record saveSessionLocally builds; it has no
\* isBookmarked field.
optimizedSessionData(sessionData, log) ==
    [session_id |-> sessionData.session_id,
     analysis_results |-> Some(sessionData.analysis_results),
     totalInteractions |-> Len(getSessionInteractions(log, sessionData.session_id)),
     isBookmarked |-> None]

\* lines 315-322: the minimal projection.
minimalSession(session) ==
    [session_id |-> session.session_id,
     analysis_results |-> None,
     totalInteractions |-> session.totalInteractions,
     isBookmarked |-> None]

\* Mutant: the list is never cut.
SliceNever(list) == list

\* line 308: updatedSessions.slice(0, 20)
Slice(list) == SubSeq(list, 1, Min(Len(list), MaxStoredSessions))

\* Mutant: the record is put in front whether or not its identifier is in
\* the list.
saveAlwaysInFront(sessions, sessionData, log) ==
    LET updatedSessions ==
            Slice(<<optimizedSessionData(sessionData, log)>> \o sessions)
    IN  IF JsonLength(updatedSessions) > ListLimit
        THEN [i \in 1..Len(updatedSessions) |-> minimalSession(updatedSessions[i])]
        ELSE updatedSessions

\* Mutant: a record with a new identifier is put at the end.
saveNewAtEnd(sessions, sessionData, log) ==
    LET existingIndex == FindIndex(sessions, sessionData.session_id)
        optimized == optimizedSessionData(sessionData, log)
        updatedSessions ==
            Slice(IF existingIndex > 0
                  THEN [sessions EXCEPT ![existingIndex] = optimized]
                  ELSE sessions \o <<optimized>>)
    IN  IF JsonLength(updatedSessions) > ListLimit
        THEN [i \in 1..Len(updatedSessions) |-> minimalSession(updatedSessions[i])]
        ELSE updatedSessions

\* lines 297-308: the list with the record in it, cut to the limit.
updatedSessions(sessions, sessionData, log) ==
    LET existingIndex == FindIndex(sessions, sessionData.session_id)
        optimized == optimizedSessionData(sessionData, log)
    IN  Slice(IF existingIndex > 0
              THEN [sessions EXCEPT ![existingIndex] = optimized]
              ELSE <<optimized>> \o sessions)

\* lines 315-322
minimalSessions(list) == [i \in 1..Len(list) |-> minimalSession(list[i])]

\* lines 297-333: what saveSessionLocally writes, given the list it read.
saveSessionLocally(sessions, sessionData, log) ==
    LET dataToStore == updatedSessions(sessions, sessionData, log)
    IN  IF JsonLength(dataToStore) > ListLimit
        THEN minimalSessions(dataToStore)
        ELSE dataToStore

\* lines 342-344
deleteFilter(sessions, sid) ==
    SelectSeq(sessions, LAMBDA x : x.session_id # sid)

\* lines 367-372: !undefined is true.
bookmarkMap(sessions, sid) ==
    [i \in 1..Len(sessions) |->
        IF sessions[i].session_id = sid
        THEN [sessions[i] EXCEPT !.isBookmarked =
                 Some(IF sessions[i].isBookmarked = None THEN TRUE
                      ELSE ~sessions[i].isBookmarked[1])]
        ELSE sessions[i]]

(***************************************************************************)
(* The list calls: each awaits getLocalSessions, computes, and awaits the  *)
(* write; other calls may run between the two.  rcalls[c].read is the list *)
(* the call read, rcalls[c].log the sessionInteractions of its render.     *)
(***************************************************************************)
RepoSlots == 1..2

NoCall == [op |-> "none", pc |-> "idle", id |-> 0, results |-> <<>>,
           read |-> <<>>, log |-> <<>>]

NoEvent == [name |-> "none", slot |-> 0, id |-> 0, read |-> <<>>, failed |-> FALSE]

Event(name, slot, id) ==
    [name |-> name, slot |-> slot, id |-> id, read |-> <<>>, failed |-> FALSE]

ResultLists == {<<>>, <<"t1", "t2">>}

RepoFrame == UNCHANGED <<storeVars, sessVars, sessionInteractions>>

\* The call and its first await: getLocalSessions.
RepoRead(c, op, sid, results) ==
    /\ rcalls[c].pc = "idle"
    /\ budget > 0
    /\ budget' = budget - 1
    /\ rcalls' = [rcalls EXCEPT ![c] =
                    [op |-> op, pc |-> "write", id |-> sid, results |-> results,
                     read |-> getLocalSessions(disk), log |-> sessionInteractions]]
    /\ UNCHANGED <<disk, event>>
    /\ RepoFrame

SaveSessionCall(c, sid, results) == RepoRead(c, "saveSessionLocally", sid, results)

DeleteSessionCall(c, sid) == RepoRead(c, "deleteLocalSession", sid, <<>>)

BookmarkCall(c, sid) == RepoRead(c, "bookmarkSession", sid, <<>>)

\* saveSessionLocally, lines 266-333.
SaveSessionWrite(c) ==
    /\ rcalls[c].op = "saveSessionLocally" /\ rcalls[c].pc = "write"
    /\ disk' = StorageSet(disk, SHARIAA_SESSIONS,
                 saveSessionLocally(rcalls[c].read,
                    [session_id |-> rcalls[c].id,
                     analysis_results |-> rcalls[c].results],
                    rcalls[c].log))
    /\ rcalls' = [rcalls EXCEPT ![c] = NoCall]
    /\ event' = [Event("saveSessionLocally", c, rcalls[c].id) EXCEPT
                    !.read = rcalls[c].read]
    /\ UNCHANGED budget
    /\ RepoFrame

\* bookmarkSession, lines 364-380.
BookmarkWrite(c) ==
    /\ rcalls[c].op = "bookmarkSession" /\ rcalls[c].pc = "write"
    /\ disk' = StorageSet(disk, SHARIAA_SESSIONS,
                          bookmarkMap(rcalls[c].read, rcalls[c].id))
    /\ rcalls' = [rcalls EXCEPT ![c] = NoCall]
    /\ event' = [Event("bookmarkSession", c, rcalls[c].id) EXCEPT
                    !.read = rcalls[c].read]
    /\ UNCHANGED budget
    /\ RepoFrame

\* deleteLocalSession, lines 341-348: the list.
DeleteSessionWrite(c) ==
    /\ rcalls[c].op = "deleteLocalSession" /\ rcalls[c].pc = "write"
    /\ disk' = StorageSet(disk, SHARIAA_SESSIONS,
                          deleteFilter(rcalls[c].read, rcalls[c].id))
    /\ rcalls' = [rcalls EXCEPT ![c].pc = "write_log"]
    /\ event' = [Event("deleteLocalSession", c, rcalls[c].id) EXCEPT
                    !.read = rcalls[c].read]
    /\ UNCHANGED <<budget, sessionInteractions, storeVars, sessVars>>

\* deleteLocalSession, lines 350-358: the interactions of the call's render,
\* filtered, replace the log in memory and in storage.
DeleteSessionLog(c) ==
    /\ rcalls[c].op = "deleteLocalSession" /\ rcalls[c].pc = "write_log"
    /\ LET updatedInteractions ==
               SelectSeq(rcalls[c].log, LAMBDA i : i.sessionId # rcalls[c].id)
       IN  /\ sessionInteractions' = updatedInteractions
           /\ disk' = StorageSet(disk, SESSION_INTERACTIONS, updatedInteractions)
    /\ rcalls' = [rcalls EXCEPT ![c] = NoCall]
    /\ event' = [Event("deleteLocalSession_log", c, rcalls[c].id) EXCEPT
                    !.read = rcalls[c].read]
    /\ UNCHANGED <<budget, storeVars, sessVars>>

(***************************************************************************)
(* The list calls with a storage that fails.  storage.getItemAsync gives   *)
(* null for a read that failed, storage.setItemAsync throws.               *)
(***************************************************************************)
\* getLocalSessions, lines 255-261: no stored text, the list is [].
RepoReadFails(c, op, sid, results) ==
    /\ rcalls[c].pc = "idle"
    /\ budget > 0
    /\ budget' = budget - 1
    /\ rcalls' = [rcalls EXCEPT ![c] =
                    [op |-> op, pc |-> "write", id |-> sid, results |-> results,
                     read |-> <<>>, log |-> sessionInteractions]]
    /\ UNCHANGED <<disk, event>>
    /\ RepoFrame

\* The write of the list throws: the catch blocks of lines 334-336,
\* 359-361 and 377-379 log the error and the call returns.
RepoWriteFails(c) ==
    /\ rcalls[c].pc = "write"
    /\ rcalls' = [rcalls EXCEPT ![c] = NoCall]
    /\ event' = [Event(rcalls[c].op, c, rcalls[c].id) EXCEPT !.failed = TRUE]
    /\ UNCHANGED <<disk, budget>>
    /\ RepoFrame

\* deleteLocalSession, lines 350-361: the write of the interactions
\* throws, after setSessionInteractions.
DeleteSessionLogFails(c) ==
    /\ rcalls[c].op = "deleteLocalSession" /\ rcalls[c].pc = "write_log"
    /\ sessionInteractions' =
          SelectSeq(rcalls[c].log, LAMBDA i : i.sessionId # rcalls[c].id)
    /\ rcalls' = [rcalls EXCEPT ![c] = NoCall]
    /\ event' = [Event("deleteLocalSession_log", c, rcalls[c].id)
                    EXCEPT !.failed = TRUE]
    /\ UNCHANGED <<disk, budget, storeVars, sessVars>>

(***************************************************************************)
(* The orchestrator, SessionProvider.  st holds the useState values.  The  *)
(* updates one synchronous run makes are applied together, and the         *)
(* saveSessionData effect then sees them all (batched setState).  A        *)
(* function keeps the state of the render it was created in: a call        *)
(* records its sessionId (calls[c].sid) and sessionInteractions            *)
(* (calls[c].log) as they were when the user started it.                   *)
(* Timestamps are left out: no modelled decision reads one.                *)
(***************************************************************************)
MaxUserCalls == 3

MaxClears == 1

MaxTimers == 1

MaxSaves == 1

\* saveSessionData runs in progress at a time in SpecSnapshot.
MaxSnapshotRuns == 2

SnapshotLimit == 12

\* Math.random() * 10, lines 520: the steps the progress takes.
Increments == {5, 9}

\* The sessions the server knows in Spec.
MainSessions == {1, 2}

Slots == 1..2

\* One upload or load at a time in Spec and SpecUpload.
MainSlots == {1}

\* The identifiers api.uploadContract answers with in SpecUpload.
UploadSessions == {1}

Messages == {"400 Bad Request", "Network Error"}

NoError == "null"

\* api.getSessionTerms: the terms of a session as the server has them.
ApiTerm(termId, valid) ==
    [term_id |-> termId, is_valid_sharia |-> valid,
     has_expert_feedback |-> None, expert_override_is_valid_sharia |-> None,
     isUserConfirmed |-> None, userModifiedText |-> None,
     isReviewedSuggestionValid |-> None, currentQaAnswer |-> None,
     expertFeedbackHistory |-> None, interactionCount |-> None]

\* Session 3 has so many terms that the JSON text of their essential
\* fields is over the limit of line 1011 as soon as it is loaded.
getSessionTerms(sid) ==
    IF sid = 1 THEN <<ApiTerm("t1", FALSE), ApiTerm("t2", TRUE)>>
    ELSE IF sid = 3
    THEN <<ApiTerm("t1", TRUE), ApiTerm("t2", TRUE),
           ApiTerm("t3", FALSE), ApiTerm("t4", TRUE)>>
    ELSE <<ApiTerm("t1", TRUE)>>

\* api.getSessionDetails: analysis_results by term_id, original_filename by
\* its length.  The name of session 2 is so long that the JSON text of its
\* essential details is as long as the limit of line 1033.
getSessionDetails(sid) ==
    [session_id |-> sid,
     original_filename |-> IF sid = 2 THEN SnapshotLimit - 3 ELSE 1,
     analysis_results |-> [i \in 1..Len(getSessionTerms(sid)) |->
                              getSessionTerms(sid)[i].term_id]]

InitialState ==
    [sessionId |-> 0, selectedSessionId |-> 0,
     analysisTerms |-> None, sessionDetails |-> None,
     isUploading |-> FALSE, uploadProgress |-> 0,
     isAnalyzingContract |-> FALSE, isFetchingSession |-> FALSE,
     isTermProcessing |-> <<>>, isGeneratingContract |-> FALSE,
     isGeneratingMarkedContract |-> FALSE, isAskingQuestion |-> FALSE,
     isReviewingModification |-> <<>>, isProcessingGeneralQuestion |-> FALSE,
     error |-> NoError, uploadError |-> NoError, analysisError |-> NoError]

\* Mutant: clearSession leaves the error fields as they are.
clearSessionKeepsErrors(s) ==
    [s EXCEPT !.sessionId = 0, !.analysisTerms = None, !.sessionDetails = None,
              !.isUploading = FALSE, !.uploadProgress = 0,
              !.isAnalyzingContract = FALSE, !.isFetchingSession = FALSE,
              !.isTermProcessing = <<>>, !.isGeneratingContract = FALSE,
              !.isGeneratingMarkedContract = FALSE, !.isAskingQuestion = FALSE,
              !.isReviewingModification = <<>>,
              !.isProcessingGeneralQuestion = FALSE]

\* clearSession, lines 383-398: the state it sets.
clearSession(s) ==
    [s EXCEPT !.sessionId = 0, !.analysisTerms = None, !.sessionDetails = None,
              !.isUploading = FALSE, !.uploadProgress = 0,
              !.isAnalyzingContract = FALSE, !.isFetchingSession = FALSE,
              !.isTermProcessing = <<>>, !.isGeneratingContract = FALSE,
              !.isGeneratingMarkedContract = FALSE, !.isAskingQuestion = FALSE,
              !.isReviewingModification = <<>>,
              !.isProcessingGeneralQuestion = FALSE,
              !.error = NoError, !.uploadError = NoError,
              !.analysisError = NoError]

\* prev => ({ ...prev, [termId]: value })
SetFlag(map, termId, value) ==
    [t \in DOMAIN map \cup {termId} |-> IF t = termId THEN value ELSE map[t]]

\* An interaction as addInteraction stamps it (the timestamp left out).
Interaction(sid, type, termId) ==
    [sessionId |-> sid, type |-> type, termId |-> termId]

\* addInteraction, lines 221-230: nothing without a sessionId; else the new
\* entry in front of the sessionInteractions of the caller's render.
addInteraction(call, log, type, termId) ==
    IF call.sid = 0 THEN log
    ELSE <<Interaction(call.sid, type, termId)>> \o call.log

\* addInteraction, lines 232-239: the same list goes to storage.
addInteractionStored(call, d, type, termId) ==
    IF call.sid = 0 THEN d
    ELSE StorageSet(d, SESSION_INTERACTIONS,
                    <<Interaction(call.sid, type, termId)>> \o call.log)

\* loadSessionData, lines 431-445: interactionCount per term.
enrichedTerms(terms, log, sid) ==
    [i \in 1..Len(terms) |->
        [terms[i] EXCEPT !.interactionCount =
            Some(Len(SelectSeq(getSessionInteractions(log, sid),
                               LAMBDA x : x.termId = terms[i].term_id)))]]

\* (t.interactionCount || 0) + 1
Bump(t) == IF t.interactionCount = None THEN 1 ELSE t.interactionCount[1] + 1

\* { ...t, ...params }
Spread(t, params) ==
    [f \in DOMAIN t |-> IF f \in DOMAIN params THEN params[f] ELSE t[f]]

\* updateTermLocally, lines 565-583, and the updater of lines 621-633:
\* null stays null; else every term with the identifier is replaced.
MapTerms(terms, termId, params) ==
    IF terms = None THEN None
    ELSE Some([i \in 1..Len(terms[1]) |->
                 IF terms[1][i].term_id = termId
                 THEN [Spread(terms[1][i], params) EXCEPT
                          !.interactionCount = Some(Bump(terms[1][i]))]
                 ELSE terms[1][i]])

\* Mutant: any term list passes the check of line 607.
HasTermInAnyList(terms, termId) == terms # None

\* lines 605-607: analysisTerms.find((t) => t.term_id === termId)
HasTerm(terms, termId) ==
    terms # None /\ \E i \in 1..Len(terms[1]) : terms[1][i].term_id = termId

\* analysisTerms.find((t) => t.term_id === termId), for a term in the list.
FindTerm(terms, termId) ==
    terms[1][CHOOSE i \in 1..Len(terms[1]) : terms[1][i].term_id = termId]

(***************************************************************************)
(* complianceStats, lines 952-990: the memo of analysisTerms.               *)
(***************************************************************************)
\* a ?? b: b for null and undefined.
Coalesce(a, b) == IF a = None THEN b ELSE a[1]

\* Mutant: the user's confirmation is looked at before the expert's verdict.
effectiveVerdictUserFirst(t) ==
    IF Coalesce(t.isUserConfirmed, FALSE)
    THEN Coalesce(t.isReviewedSuggestionValid, TRUE)
    ELSE Coalesce(t.expert_override_is_valid_sharia, t.is_valid_sharia)

\* Mutant: a confirmed text without a review counts as not valid.
effectiveVerdictPessimistic(t) ==
    Coalesce(t.expert_override_is_valid_sharia,
             IF Coalesce(t.isUserConfirmed, FALSE)
             THEN Coalesce(t.isReviewedSuggestionValid, FALSE)
             ELSE t.is_valid_sharia)

\* lines 968-972: the predicate of the filter.
effectiveVerdict(t) ==
    Coalesce(t.expert_override_is_valid_sharia,
             IF Coalesce(t.isUserConfirmed, FALSE)
             THEN Coalesce(t.isReviewedSuggestionValid, TRUE)
             ELSE t.is_valid_sharia)

\* Mutant: the percentage without the factor 100.
complianceStatsAsFraction(terms) ==
    IF terms = None THEN None
    ELSE LET totalTerms == Len(terms[1])
             compliantCount == Len(SelectSeq(terms[1], effectiveVerdict))
         IN  Some([totalTerms |-> totalTerms,
                   currentUserEffectiveCompliantCount |-> compliantCount,
                   currentUserEffectiveNonCompliantCount |->
                       totalTerms - compliantCount,
                   overallCompliancePercentage |->
                       IF totalTerms = 0 THEN 0
                       ELSE compliantCount \div totalTerms])

\* lines 952-990.  (compliantCount / totalTerms) * 100 is computed in
\* doubles; a list has at most the two terms of TermIds, so the quotient
\* is 0, 1/2 or 1 and the product is the exact whole number.
complianceStats(terms) ==
    IF terms = None THEN None
    ELSE LET totalTerms == Len(terms[1])
             compliantCount == Len(SelectSeq(terms[1], effectiveVerdict))
         IN  IF totalTerms = 0
             THEN Some([totalTerms |-> 0,
                        currentUserEffectiveCompliantCount |-> 0,
                        currentUserEffectiveNonCompliantCount |-> 0,
                        overallCompliancePercentage |-> 0,
                        expertReviewedTerms |-> 0,
                        userModifiedTerms |-> 0])
             ELSE Some([totalTerms |-> totalTerms,
                        currentUserEffectiveCompliantCount |-> compliantCount,
                        currentUserEffectiveNonCompliantCount |->
                            totalTerms - compliantCount,
                        overallCompliancePercentage |->
                            (compliantCount * 100) \div totalTerms,
                        expertReviewedTerms |->
                            Len(SelectSeq(terms[1], LAMBDA t :
                                   Coalesce(t.has_expert_feedback, FALSE))),
                        userModifiedTerms |->
                            Len(SelectSeq(terms[1], LAMBDA t :
                                   Coalesce(t.isUserConfirmed, FALSE)))])

(***************************************************************************)
(* saveSessionData, lines 993-1049, and restoreSessionData, 1052-1076.     *)
(* The lengths of the JSON texts are in the units of SnapshotLimit, which  *)
(* stands for the 2000 of lines 1011 and 1033.                             *)
(***************************************************************************)

\* lines 1000-1008: the fields kept; JSON drops the others.
essentialTerm(term) ==
    [term EXCEPT !.has_expert_feedback = None,
                 !.expert_override_is_valid_sharia = None,
                 !.currentQaAnswer = None,
                 !.expertFeedbackHistory = None]

essentialTerms(terms) == [i \in 1..Len(terms) |-> essentialTerm(terms[i])]

TermLength(term) == 3 + (IF term.userModifiedText = None THEN 0 ELSE 2)

TermsLength(terms) ==
    2 + SumOver([i \in 1..Len(terms) |-> TermLength(terms[i])], Len(terms))

DetailsLength(details) == 3 + details.original_filename

\* Mutant: the cycle ends at the first projection it does not write.
NextSaveEndsAtSkip(run, done) ==
    IF done = "id" /\ TermsLength(essentialTerms(run.analysisTerms)) < SnapshotLimit
    THEN "terms"
    ELSE IF done = "terms" /\ run.sessionDetails # None
              /\ DetailsLength(run.sessionDetails[1]) < SnapshotLimit
         THEN "details"
         ELSE "end"

\* The storage write a run makes next, after the write `done`.
NextSave(run, done) ==
    IF done = "id" /\ TermsLength(essentialTerms(run.analysisTerms)) < SnapshotLimit
    THEN "terms"
    ELSE IF done \in {"id", "terms"} /\ run.sessionDetails # None
              /\ DetailsLength(run.sessionDetails[1]) < SnapshotLimit
         THEN "details"
         ELSE "end"

\* The effect of lines 993-1049 after a render in which one of sessionId,
\* analysisTerms, sessionDetails is a new value.
Effect(touched, s, running) ==
    IF touched /\ s.sessionId # 0 /\ s.analysisTerms # None
    THEN running \cup {[pc |-> "id", sessionId |-> s.sessionId,
                        analysisTerms |-> s.analysisTerms[1],
                        sessionDetails |-> s.sessionDetails]}
    ELSE running

\* Mutant: the session is restored on the identifier alone.
restoreOnIdentifierAlone(d) ==
    IF d[CURRENT_SESSION_ID] # None
    THEN [sessionId |-> d[CURRENT_SESSION_ID][1],
          analysisTerms |-> d[CURRENT_ANALYSIS_TERMS],
          sessionDetails |-> d[CURRENT_SESSION_DETAILS]]
    ELSE [sessionId |-> 0, analysisTerms |-> None, sessionDetails |-> None]

\* restoreSessionData, lines 1055-1069: what it sets.
restoreSessionData(d) ==
    IF d[CURRENT_SESSION_ID] # None /\ d[CURRENT_ANALYSIS_TERMS] # None
    THEN [sessionId |-> d[CURRENT_SESSION_ID][1],
          analysisTerms |-> d[CURRENT_ANALYSIS_TERMS],
          sessionDetails |-> d[CURRENT_SESSION_DETAILS]]
    ELSE [sessionId |-> 0, analysisTerms |-> None, sessionDetails |-> None]

\* loadInteractions, lines 187-196.
loadInteractions(d) ==
    IF d[SESSION_INTERACTIONS] = None THEN <<>> ELSE d[SESSION_INTERACTIONS][1]

NoOrchestratorCall ==
    [op |-> "none", pc |-> "idle", sid |-> 0, arg |-> 0, termId |-> "",
     log |-> <<>>, payload |-> None, history |-> <<>>,
     stale |-> FALSE, failed |-> FALSE]

InFlight(c) == calls[c].pc # "idle"

\* The external calls of the API client.
ApiPcs == {"uploadContract", "load", "askQuestion", "reviewUserModification",
           "confirmTermModification", "askGeneralQuestion",
           "generateContract", "submitExpertFeedback"}

\* A clearSession run marks what is waiting for the API.
MarkStale(cs) ==
    [c \in Slots |-> IF cs[c].pc \in ApiPcs THEN [cs[c] EXCEPT !.stale = TRUE]
                     ELSE cs[c]]

PendingClears == clears[1] + clears[2] + clears[3]

SessAtRest ==
    /\ st = InitialState
    /\ calls = [c \in Slots |-> NoOrchestratorCall]
    /\ timers = 0
    /\ clears = <<0, 0, 0>>
    /\ saves = {}
    /\ afterClear = FALSE

(***************************************************************************)
(* The orchestrator's steps: a call runs from where the user starts it, or *)
(* from the await it was suspended at, to its next await.                  *)
(***************************************************************************)
SessFrame == UNCHANGED <<storeVars, repoVars>>

\* A call the user starts: it takes a free slot and one unit of the budget.
\* Mutant: the operations start without looking at sessionId.
hasSessionIdAlways(s) == TRUE

\* `if (!sessionId) return ...`, the first line of every session operation
\* (lines 605, 665, 701, 752, 789, 835, 882).
hasSessionId(s) == s.sessionId # 0

\* The early return of a session operation: no state is set, no request is
\* made; event records the call and its negative result.
EarlyReturn(name, c) ==
    /\ event' = [Event(name, c, 0) EXCEPT !.failed = TRUE]
    /\ UNCHANGED <<st, calls>>

UserCall(c) ==
    /\ ~InFlight(c)
    /\ \A b \in Slots : b < c => InFlight(b)
    /\ budget > 0
    /\ budget' = budget - 1

NewCall(op, pc, arg, termId) ==
    [op |-> op, pc |-> pc, sid |-> st.sessionId, arg |-> arg, termId |-> termId,
     log |-> sessionInteractions, payload |-> None, history |-> <<>>,
     stale |-> FALSE, failed |-> FALSE]

StartClear(cl) == [cl EXCEPT ![1] = cl[1] + 1]

\* lines 1022-1030: the fields of sessionDetails that are stored.
essentialDetails(details) ==
    [details EXCEPT !.analysis_results = None,
                    !.modified_contract_info = None,
                    !.marked_contract_info = None]

\* clearSession, called by the user (lines 382-408): the state at once, the
\* three deletes one by one after it.
ClearSessionCall ==
    /\ budget > 0
    /\ budget' = budget - 1
    /\ PendingClears < MaxClears
    /\ st' = clearSession(st)
    /\ clears' = StartClear(clears)
    /\ calls' = MarkStale(calls)
    /\ afterClear' = \E c \in Slots : calls[c].op = "upload"
    /\ event' = NoEvent
    /\ UNCHANGED <<disk, sessionInteractions, timers, saves>>
    /\ SessFrame

\* lines 402-404: the key of the k-th delete.
SnapshotKey(k) ==
    IF k = 1 THEN CURRENT_SESSION_ID
    ELSE IF k = 2 THEN CURRENT_ANALYSIS_TERMS
    ELSE CURRENT_SESSION_DETAILS

\* lines 402-404: the next deleteItemAsync of a clearSession run.
ClearSessionDelete(k) ==
    /\ clears[k] > 0
    /\ disk' = StorageDelete(disk, SnapshotKey(k))
    /\ clears' = IF k < 3
                 THEN [clears EXCEPT ![k] = clears[k] - 1, ![k + 1] = clears[k + 1] + 1]
                 ELSE [clears EXCEPT ![k] = clears[k] - 1]
    /\ event' = NoEvent
    /\ UNCHANGED <<sessionInteractions, budget, st, calls, timers, saves, afterClear>>
    /\ SessFrame

\* saveSessionData: the next setItemAsync of a run.
SaveSessionData(run) ==
    /\ run \in saves
    /\ disk' = StorageSet(disk,
                 IF run.pc = "id" THEN CURRENT_SESSION_ID
                 ELSE IF run.pc = "terms" THEN CURRENT_ANALYSIS_TERMS
                 ELSE CURRENT_SESSION_DETAILS,
                 IF run.pc = "id" THEN run.sessionId
                 ELSE IF run.pc = "terms" THEN essentialTerms(run.analysisTerms)
                 ELSE essentialDetails(run.sessionDetails[1]))
    /\ saves' = IF NextSave(run, run.pc) = "end" THEN saves \ {run}
                ELSE (saves \ {run}) \cup {[run EXCEPT !.pc = NextSave(run, run.pc)]}
    /\ event' = NoEvent
    /\ UNCHANGED <<sessionInteractions, budget, st, calls, timers, clears, afterClear>>
    /\ SessFrame

\* The progress interval, lines 514-522.
ProgressTick(increment) ==
    /\ timers > 0
    /\ IF st.uploadProgress >= 90
       THEN /\ timers' = timers - 1
            /\ st' = [st EXCEPT !.uploadProgress = 90]
       ELSE /\ timers' = timers
            /\ st' = [st EXCEPT !.uploadProgress = st.uploadProgress + increment]
    /\ event' = NoEvent
    /\ UNCHANGED <<disk, sessionInteractions, budget, calls, clears, saves, afterClear>>
    /\ SessFrame

\* lines 546-552
uploadErrorFor(message) ==
    IF message = "400 Bad Request" THEN "Invalid file format"
    ELSE message

\* lines 507 and 511: the message thrown for a file without name or type.
InvalidFile == "Invalid file"

\* Mutant: the catch block sets error alone.
catchUploadErrorOnly(s, message) ==
    [s EXCEPT !.error = message,
              !.isUploading = FALSE, !.isAnalyzingContract = FALSE,
              !.uploadProgress = 0]

\* lines 534-562: catch and finally of uploadAndAnalyzeContract.
catchUpload(s, message) ==
    [s EXCEPT !.uploadError = uploadErrorFor(message),
              !.analysisError = message, !.error = message,
              !.isUploading = FALSE, !.isAnalyzingContract = FALSE,
              !.uploadProgress = 0]

\* uploadAndAnalyzeContract, lines 486-524: to the await of uploadContract,
\* or through catch and finally for a file without name or type.
UploadCall(c, validFile) ==
    /\ UserCall(c)
    /\ PendingClears < MaxClears
    /\ validFile => timers < MaxTimers
    /\ clears' = StartClear(clears)
    /\ afterClear' = FALSE
    /\ LET cleared == clearSession(st)
       IN  IF validFile
           THEN /\ st' = [cleared EXCEPT !.isUploading = TRUE,
                                         !.isAnalyzingContract = TRUE]
                /\ timers' = timers + 1
                /\ calls' = [MarkStale(calls) EXCEPT ![c] =
                               NewCall("upload", "uploadContract", 0, "")]
                /\ event' = NoEvent
           ELSE /\ st' = catchUpload(cleared, InvalidFile)
                /\ timers' = timers
                /\ calls' = MarkStale(calls)
                /\ event' = [Event("uploadAndAnalyzeContract.return", c, 0)
                                EXCEPT !.failed = TRUE]
    /\ UNCHANGED <<disk, sessionInteractions, saves>>
    /\ SessFrame

\* lines 524-525: uploadContract resolved; loadSessionData runs to its await.
UploadResolved(c, newId) ==
    /\ calls[c].op = "upload" /\ calls[c].pc = "uploadContract"
    /\ st' = [st EXCEPT !.isFetchingSession = TRUE, !.error = NoError]
    /\ calls' = [calls EXCEPT ![c].pc = "load", ![c].arg = newId]
    /\ event' = NoEvent
    /\ UNCHANGED <<disk, sessionInteractions, budget, timers, clears, saves, afterClear>>
    /\ SessFrame

\* lines 534-562: uploadContract rejected.
UploadRejected(c, message) ==
    /\ calls[c].op = "upload" /\ calls[c].pc = "uploadContract"
    /\ st' = catchUpload(st, message)
    /\ calls' = [calls EXCEPT ![c] = NoOrchestratorCall]
    /\ event' = [Event("uploadAndAnalyzeContract.return", c, 0) EXCEPT !.failed = TRUE]
    /\ UNCHANGED <<disk, sessionInteractions, budget, timers, clears, saves, afterClear>>
    /\ SessFrame

\* lines 446-453: the sessionDetails loadSessionData sets.
loadedDetails(sid, log) ==
    Some([session_id |-> sid,
          original_filename |-> getSessionDetails(sid).original_filename,
          analysis_results |-> Some(getSessionDetails(sid).analysis_results),
          totalInteractions |-> Len(getSessionInteractions(log, sid)),
          modified_contract_info |-> None,
          marked_contract_info |-> None])

\* lines 429-445 and 455-459: the analysisTerms loadSessionData sets; a
\* response that is no array counts as no terms.
loadedTerms(sid, isArray, log) ==
    Some(enrichedTerms(IF isArray THEN getSessionTerms(sid) ELSE <<>>, log, sid))

\* loadSessionData called by the user, lines 412-419.
LoadCall(c, sid) ==
    /\ UserCall(c)
    /\ st' = [st EXCEPT !.isFetchingSession = TRUE, !.error = NoError]
    /\ calls' = [calls EXCEPT ![c] = NewCall("load", "load", sid, "")]
    /\ afterClear' = FALSE
    /\ event' = NoEvent
    /\ UNCHANGED <<disk, sessionInteractions, timers, clears, saves>>
    /\ SessFrame

\* lines 428-461: both fetches resolved; a non-array term response counts
\* as no terms.
LoadResolved(c, isArray) ==
    /\ calls[c].pc = "load"
    /\ Cardinality(saves) < MaxSaves
    /\ LET sid == calls[c].arg
       IN  st' = [st EXCEPT
                    !.sessionId = sid, !.selectedSessionId = sid,
                    !.sessionDetails = loadedDetails(sid, calls[c].log),
                    !.analysisTerms = loadedTerms(sid, isArray, calls[c].log)]
    /\ saves' = Effect(TRUE, st', saves)
    /\ calls' = [calls EXCEPT ![c].pc = "saveSessionLocally"]
    /\ event' = NoEvent
    /\ UNCHANGED <<disk, sessionInteractions, budget, timers, clears, afterClear>>
    /\ SessFrame

\* lines 461 and 476-478: saveSessionLocally done, finally; within an upload,
\* lines 527-531 follow: addInteraction to its await.
LoadSaved(c) ==
    /\ calls[c].pc = "saveSessionLocally"
    /\ disk' = StorageSet(disk, SHARIAA_SESSIONS,
                 saveSessionLocally(getLocalSessions(disk),
                                    getSessionDetails(calls[c].arg), calls[c].log))
    /\ st' = [st EXCEPT !.isFetchingSession = FALSE]
    /\ IF calls[c].op = "upload"
       THEN /\ sessionInteractions' =
                   addInteraction(calls[c], sessionInteractions, "question_asked", "")
            /\ calls' = [calls EXCEPT ![c].pc = "addInteraction"]
       ELSE /\ calls' = [calls EXCEPT ![c] = NoOrchestratorCall]
            /\ UNCHANGED sessionInteractions
    /\ event' = NoEvent
    /\ UNCHANGED <<budget, timers, clears, saves, afterClear>>
    /\ SessFrame

\* loadSessionFromHistory, lines 920-941: the session of a history record
\* becomes the active one in one synchronous run; the effect of lines
\* 993-1049 follows the render.
LoadSessionFromHistory(sid, isArray) ==
    /\ budget > 0
    /\ budget' = budget - 1
    /\ Cardinality(saves) < MaxSnapshotRuns
    /\ st' = [st EXCEPT
                 !.sessionId = sid,
                 !.sessionDetails = loadedDetails(sid, sessionInteractions),
                 !.analysisTerms = loadedTerms(sid, isArray, sessionInteractions)]
    /\ saves' = Effect(TRUE, st', saves)
    /\ event' = NoEvent
    /\ UNCHANGED <<disk, sessionInteractions, calls, timers, clears, afterClear>>
    /\ SessFrame

\* lines 462-478: a fetch rejected: setError, clearSession, finally.
LoadRejected(c, message) ==
    /\ calls[c].pc = "load"
    /\ PendingClears < MaxClears
    /\ st' = clearSession([st EXCEPT !.error = message])
    /\ clears' = StartClear(clears)
    /\ IF calls[c].op = "upload"
       THEN /\ sessionInteractions' =
                   addInteraction(calls[c], sessionInteractions, "question_asked", "")
            /\ calls' = [MarkStale(calls) EXCEPT ![c].pc = "addInteraction",
                                                 ![c].failed = TRUE,
                                                 ![c].stale = calls[c].stale]
       ELSE /\ calls' = [MarkStale(calls) EXCEPT ![c] = NoOrchestratorCall]
            /\ UNCHANGED sessionInteractions
    /\ event' = NoEvent
    /\ UNCHANGED <<disk, budget, timers, saves, afterClear>>
    /\ SessFrame

\* lines 528-533 and 558-562: the interaction stored, the identifier
\* returned, finally.
UploadReturn(c) ==
    /\ calls[c].op = "upload" /\ calls[c].pc = "addInteraction"
    /\ disk' = addInteractionStored(calls[c], disk, "question_asked", "")
    /\ st' = [st EXCEPT !.isUploading = FALSE, !.isAnalyzingContract = FALSE,
                        !.uploadProgress = 0]
    /\ calls' = [calls EXCEPT ![c] = NoOrchestratorCall]
    /\ event' = [Event("uploadAndAnalyzeContract.return", c, calls[c].arg)
                    EXCEPT !.failed = calls[c].failed]
    /\ UNCHANGED <<sessionInteractions, budget, timers, clears, saves, afterClear>>
    /\ SessFrame

\* Mutant: the finally of askQuestionAboutTerm leaves isAskingQuestion.
TermFinallyKeepsAsking(s, call) ==
    IF call.op = "feedback" THEN s
    ELSE IF call.op = "review"
    THEN [s EXCEPT !.isReviewingModification = SetFlag(@, call.termId, FALSE)]
    ELSE [s EXCEPT !.isTermProcessing = SetFlag(@, call.termId, FALSE)]

\* The finally blocks of the term operations; submitExpertFeedback has
\* none.
TermFinally(s, call) ==
    IF call.op = "feedback" THEN s
    ELSE IF call.op = "ask"
    THEN [s EXCEPT !.isAskingQuestion = FALSE,
                   !.isTermProcessing = SetFlag(@, call.termId, FALSE)]
    ELSE IF call.op = "review"
    THEN [s EXCEPT !.isReviewingModification = SetFlag(@, call.termId, FALSE)]
    ELSE [s EXCEPT !.isTermProcessing = SetFlag(@, call.termId, FALSE)]

\* askQuestionAboutTerm, lines 601-619: null at once without a session, a
\* term list or the term (lines 605-607); else to the await of
\* api.askQuestion.
AskCall(c, termId) ==
    /\ UserCall(c)
    /\ IF hasSessionId(st) /\ HasTerm(st.analysisTerms, termId)
       THEN /\ st' = [st EXCEPT !.isAskingQuestion = TRUE,
                               !.isTermProcessing = SetFlag(@, termId, TRUE)]
            /\ calls' = [calls EXCEPT ![c] =
                            NewCall("ask", "askQuestion", 0, termId)]
            /\ event' = NoEvent
       ELSE /\ event' = [Event("askQuestionAboutTerm", c, st.sessionId)
                            EXCEPT !.failed = TRUE]
            /\ UNCHANGED <<st, calls>>
    /\ afterClear' = FALSE
    /\ UNCHANGED <<disk, sessionInteractions, timers, clears, saves>>
    /\ SessFrame

\* reviewUserModification, lines 696-710.
ReviewCall(c, termId) ==
    /\ UserCall(c)
    /\ IF hasSessionId(st)
       THEN /\ st' = [st EXCEPT !.isReviewingModification = SetFlag(@, termId, TRUE)]
            /\ calls' = [calls EXCEPT ![c] =
                            NewCall("review", "reviewUserModification", 0, termId)]
            /\ event' = NoEvent
       ELSE EarlyReturn("reviewUserModification", c)
    /\ afterClear' = FALSE
    /\ UNCHANGED <<disk, sessionInteractions, timers, clears, saves>>
    /\ SessFrame

\* confirmTermModification, lines 748-756.
ConfirmCall(c, termId) ==
    /\ UserCall(c)
    /\ IF hasSessionId(st)
       THEN /\ st' = [st EXCEPT !.isTermProcessing = SetFlag(@, termId, TRUE)]
            /\ calls' = [calls EXCEPT ![c] =
                            NewCall("confirm", "confirmTermModification", 0, termId)]
            /\ event' = NoEvent
       ELSE EarlyReturn("confirmTermModification", c)
    /\ afterClear' = FALSE
    /\ UNCHANGED <<disk, sessionInteractions, timers, clears, saves>>
    /\ SessFrame

\* The API answered a term operation: the term updated in the current
\* analysisTerms, addInteraction run to its await.
TermResolved(c, type, params) ==
    /\ Cardinality(saves) < MaxSaves
    /\ st' = [st EXCEPT !.analysisTerms = MapTerms(@, calls[c].termId, params)]
    /\ saves' = Effect(st.analysisTerms # None, st', saves)
    /\ sessionInteractions' =
          addInteraction(calls[c], sessionInteractions, type, calls[c].termId)
    /\ calls' = [calls EXCEPT ![c].pc = "addInteraction"]
    /\ UNCHANGED <<disk, budget, timers, clears, afterClear>>
    /\ SessFrame

\* lines 620-640
AskResolved(c) ==
    /\ calls[c].pc = "askQuestion"
    /\ TermResolved(c, "question_asked", [currentQaAnswer |-> Some("answer")])
    /\ event' = NoEvent

\* Mutant: a review leaves the confirmation flag as it is.
ReviewResolvedKeepsFlag(c, stillValid) ==
    /\ calls[c].pc = "reviewUserModification"
    /\ TermResolved(c, "term_modified",
          [userModifiedText |-> Some("reviewed"),
           isReviewedSuggestionValid |-> Some(stillValid)])
    /\ event' = NoEvent

\* lines 705-729
ReviewResolved(c, stillValid) ==
    /\ calls[c].pc = "reviewUserModification"
    /\ TermResolved(c, "term_modified",
          [userModifiedText |-> Some("reviewed"),
           isReviewedSuggestionValid |-> Some(stillValid),
           isUserConfirmed |-> Some(FALSE)])
    /\ event' = NoEvent

\* lines 757-770
ConfirmResolved(c) ==
    /\ calls[c].pc = "confirmTermModification"
    /\ TermResolved(c, "term_modified",
          [isUserConfirmed |-> Some(TRUE),
           userModifiedText |-> Some("confirmed")])
    /\ event' = NoEvent

\* ExpertFeedbackPayload: the term and
\* feedback_data.expertIsValidSharia.
Payload(termId, verdict) ==
    [term_id |-> termId, expertIsValidSharia |-> verdict]

\* lines 892-893: analysisTerms?.find(...)?.expertFeedbackHistory || []
historyOf(terms, termId) ==
    IF HasTerm(terms, termId)
    THEN Coalesce(FindTerm(terms, termId).expertFeedbackHistory, <<>>)
    ELSE <<>>

\* submitExpertFeedback, lines 879-885: to the await of
\* api.submitExpertFeedback.  The function is the one of the render it is
\* called in, with the analysisTerms of that render.
FeedbackCall(c, termId, verdict) ==
    /\ UserCall(c)
    /\ IF hasSessionId(st)
       THEN /\ calls' = [calls EXCEPT ![c] =
                  [NewCall("feedback", "submitExpertFeedback", 0, termId)
                     EXCEPT !.payload = Some(Payload(termId, verdict)),
                            !.history = historyOf(st.analysisTerms, termId)]]
            /\ event' = NoEvent
            /\ st' = st
       ELSE EarlyReturn("submitExpertFeedback", c)
    /\ afterClear' = FALSE
    /\ UNCHANGED <<disk, sessionInteractions, timers, clears, saves>>
    /\ SessFrame

\* lines 891-895: the history of the closure with the payload at its end.
FeedbackHistory(c) == calls[c].history \o <<calls[c].payload[1]>>

\* lines 886-903
FeedbackResolved(c) ==
    /\ calls[c].pc = "submitExpertFeedback"
    /\ TermResolved(c, "expert_feedback",
          [has_expert_feedback |-> Some(TRUE),
           expert_override_is_valid_sharia |->
               Some(calls[c].payload[1].expertIsValidSharia),
           expertFeedbackHistory |-> Some(FeedbackHistory(c))])
    /\ event' = NoEvent

\* The interaction stored, the result returned, finally.
TermReturn(c) ==
    /\ calls[c].op \in {"ask", "review", "confirm", "feedback"}
    /\ calls[c].pc = "addInteraction"
    /\ disk' = addInteractionStored(calls[c], disk,
                  IF calls[c].op = "ask" THEN "question_asked"
                  ELSE IF calls[c].op = "feedback" THEN "expert_feedback"
                  ELSE "term_modified",
                  calls[c].termId)
    /\ st' = TermFinally(st, calls[c])
    /\ calls' = [calls EXCEPT ![c] = NoOrchestratorCall]
    /\ event' = NoEvent
    /\ UNCHANGED <<sessionInteractions, budget, timers, clears, saves, afterClear>>
    /\ SessFrame

\* The API rejected a term operation: catch, finally.
TermRejected(c) ==
    /\ calls[c].pc \in {"askQuestion", "reviewUserModification",
                        "confirmTermModification", "submitExpertFeedback"}
    /\ st' = TermFinally(st, calls[c])
    /\ calls' = [calls EXCEPT ![c] = NoOrchestratorCall]
    /\ event' = NoEvent
    /\ UNCHANGED <<disk, sessionInteractions, budget, timers, clears, saves,
                   afterClear>>
    /\ SessFrame

\* askGeneralContractQuestion, lines 662-670: to the await of api.askQuestion.
GeneralCall(c) ==
    /\ UserCall(c)
    /\ IF hasSessionId(st)
       THEN /\ st' = [st EXCEPT !.isProcessingGeneralQuestion = TRUE,
                                !.isAskingQuestion = TRUE]
            /\ calls' = [calls EXCEPT ![c] =
                            NewCall("general", "askGeneralQuestion", 0, "")]
            /\ event' = NoEvent
       ELSE EarlyReturn("askGeneralContractQuestion", c)
    /\ afterClear' = FALSE
    /\ UNCHANGED <<disk, sessionInteractions, timers, clears, saves>>
    /\ SessFrame

\* generateModifiedContract, lines 787-792, and generateMarkedContract,
\* lines 832-837: to the await of the API call.
GenerateCall(c, op) ==
    /\ UserCall(c)
    /\ IF hasSessionId(st)
       THEN /\ st' = IF op = "modified"
                     THEN [st EXCEPT !.isGeneratingContract = TRUE]
                     ELSE [st EXCEPT !.isGeneratingMarkedContract = TRUE]
            /\ calls' = [calls EXCEPT ![c] = NewCall(op, "generateContract", 0, "")]
            /\ event' = NoEvent
       ELSE EarlyReturn(IF op = "modified" THEN "generateModifiedContract"
                        ELSE "generateMarkedContract", c)
    /\ afterClear' = FALSE
    /\ UNCHANGED <<disk, sessionInteractions, timers, clears, saves>>
    /\ SessFrame

\* The finally blocks of lines 691-694, 824-826 and 869-871.
SessionFinally(s, call) ==
    IF call.op = "general"
    THEN [s EXCEPT !.isProcessingGeneralQuestion = FALSE,
                   !.isAskingQuestion = FALSE]
    ELSE IF call.op = "modified"
    THEN [s EXCEPT !.isGeneratingContract = FALSE]
    ELSE [s EXCEPT !.isGeneratingMarkedContract = FALSE]

\* lines 670-676: the answer arrived; addInteraction to its await.
GeneralResolved(c) ==
    /\ calls[c].pc = "askGeneralQuestion"
    /\ sessionInteractions' =
          addInteraction(calls[c], sessionInteractions, "question_asked", "")
    /\ calls' = [calls EXCEPT ![c].pc = "addInteraction"]
    /\ event' = NoEvent
    /\ UNCHANGED <<disk, budget, st, timers, clears, saves, afterClear>>
    /\ SessFrame

\* lines 793-815 and 838-860: the response arrived; with success the link
\* goes into sessionDetails (null stays null) and addInteraction runs to
\* its await, without success the response is returned at once.
GenerateResolved(c, success) ==
    /\ calls[c].pc = "generateContract"
    /\ Cardinality(saves) < MaxSaves
    /\ IF success
       THEN /\ st' = [st EXCEPT !.sessionDetails =
                        IF @ = None THEN None
                        ELSE IF calls[c].op = "modified"
                        THEN Some([@[1] EXCEPT !.modified_contract_info = Some("url")])
                        ELSE Some([@[1] EXCEPT !.marked_contract_info = Some("url")])]
            /\ saves' = Effect(st.sessionDetails # None, st', saves)
            /\ sessionInteractions' =
                  addInteraction(calls[c], sessionInteractions,
                                 "contract_generated", "")
            /\ calls' = [calls EXCEPT ![c].pc = "addInteraction"]
       ELSE /\ st' = SessionFinally(st, calls[c])
            /\ calls' = [calls EXCEPT ![c] = NoOrchestratorCall]
            /\ UNCHANGED <<saves, sessionInteractions>>
    /\ event' = NoEvent
    /\ UNCHANGED <<disk, budget, timers, clears, afterClear>>
    /\ SessFrame

\* The interaction stored, the result returned, finally.
SessionOpReturn(c) ==
    /\ calls[c].op \in {"general", "modified", "marked"}
    /\ calls[c].pc = "addInteraction"
    /\ disk' = addInteractionStored(calls[c], disk,
                  IF calls[c].op = "general" THEN "question_asked"
                  ELSE "contract_generated", "")
    /\ st' = SessionFinally(st, calls[c])
    /\ calls' = [calls EXCEPT ![c] = NoOrchestratorCall]
    /\ event' = NoEvent
    /\ UNCHANGED <<sessionInteractions, budget, timers, clears, saves, afterClear>>
    /\ SessFrame

\* The API rejected the call: catch, finally.
SessionOpRejected(c) ==
    /\ calls[c].pc \in {"askGeneralQuestion", "generateContract"}
    /\ st' = SessionFinally(st, calls[c])
    /\ calls' = [calls EXCEPT ![c] = NoOrchestratorCall]
    /\ event' = NoEvent
    /\ UNCHANGED <<disk, sessionInteractions, budget, timers, clears, saves,
                   afterClear>>
    /\ SessFrame

\* The application is killed and started again: memory and everything in
\* flight are lost, storage stays; on mount loadInteractions (lines 187-199)
\* and restoreSessionData (lines 1052-1075) run.
Restart ==
    /\ budget > 0
    /\ budget' = budget - 1
    /\ LET restored == restoreSessionData(disk)
       IN  st' = [InitialState EXCEPT !.sessionId = restored.sessionId,
                                      !.analysisTerms = restored.analysisTerms,
                                      !.sessionDetails = restored.sessionDetails]
    /\ sessionInteractions' = loadInteractions(disk)
    /\ calls' = [c \in Slots |-> NoOrchestratorCall]
    /\ timers' = 0
    /\ clears' = <<0, 0, 0>>
    /\ saves' = Effect(TRUE, st', {})
    /\ afterClear' = FALSE
    /\ event' = Event("restart", 0, 0)
    /\ UNCHANGED disk
    /\ SessFrame

\* A full list as MaxStoredSessions loads of new sessions leave it.
FullList ==
    [i \in 1..MaxStoredSessions |->
        [session_id |-> i, analysis_results |-> Some(<<>>),
         totalInteractions |-> 0, isBookmarked |-> None]]

EmptyDisk == [key \in storageKeys |-> None]

StoreAtRest ==
    /\ secureStore = <<>>
    /\ sop = [name |-> "none", pc |-> "idle", value |-> <<>>,
              i |-> 0, chunkCount |-> 0]
    /\ getResult = UNREAD
    /\ putLog = {}

RepoAtRest == rcalls = [c \in RepoSlots |-> NoCall]

InitRepo ==
    /\ StoreAtRest
    /\ RepoAtRest
    /\ SessAtRest
    /\ disk \in {EmptyDisk, StorageSet(EmptyDisk, SHARIAA_SESSIONS, FullList)}
    /\ sessionInteractions = <<>>
    /\ event = NoEvent
    /\ budget = MaxRepoCalls

NextRepo ==
    \/ \E c \in RepoSlots, sid \in SessionIds, results \in ResultLists :
          SaveSessionCall(c, sid, results)
    \/ \E c \in RepoSlots, sid \in SessionIds : DeleteSessionCall(c, sid)
    \/ \E c \in RepoSlots, sid \in SessionIds : BookmarkCall(c, sid)
    \/ \E c \in RepoSlots : SaveSessionWrite(c)
    \/ \E c \in RepoSlots : BookmarkWrite(c)
    \/ \E c \in RepoSlots : DeleteSessionWrite(c)
    \/ \E c \in RepoSlots : DeleteSessionLog(c)

SpecRepo == InitRepo /\ [][NextRepo]_vars

(***************************************************************************)
(* The list calls on a storage whose reads and writes may fail, started    *)
(* with a full list and a log of one interaction in each of two sessions.  *)
(***************************************************************************)
MaxFaultCalls == 2

StoredLog ==
    <<Interaction(1, "question_asked", "t1"),
      Interaction(2, "question_asked", "t1")>>

InitRepoFaults ==
    /\ StoreAtRest
    /\ RepoAtRest
    /\ SessAtRest
    /\ disk = StorageSet(StorageSet(EmptyDisk, SHARIAA_SESSIONS, FullList),
                         SESSION_INTERACTIONS, StoredLog)
    /\ sessionInteractions = StoredLog
    /\ event = NoEvent
    /\ budget = MaxFaultCalls

NextRepoFaults ==
    \/ \E c \in RepoSlots, sid \in SessionIds, results \in ResultLists :
          SaveSessionCall(c, sid, results)
    \/ \E c \in RepoSlots, sid \in SessionIds : DeleteSessionCall(c, sid)
    \/ \E c \in RepoSlots, sid \in SessionIds : BookmarkCall(c, sid)
    \/ \E c \in RepoSlots : SaveSessionWrite(c)
    \/ \E c \in RepoSlots : BookmarkWrite(c)
    \/ \E c \in RepoSlots : DeleteSessionWrite(c)
    \/ \E c \in RepoSlots : DeleteSessionLog(c)
    \/ \E c \in RepoSlots, sid \in SessionIds, results \in ResultLists :
          RepoReadFails(c, "saveSessionLocally", sid, results)
    \/ \E c \in RepoSlots, sid \in SessionIds,
           op \in {"deleteLocalSession", "bookmarkSession"} :
          RepoReadFails(c, op, sid, <<>>)
    \/ \E c \in RepoSlots : RepoWriteFails(c)
    \/ \E c \in RepoSlots : DeleteSessionLogFails(c)

SpecRepoFaults == InitRepoFaults /\ [][NextRepoFaults]_vars

(***************************************************************************)
(* The list calls on an installation that has a full list and a log with   *)
(* interactions of two sessions; no storage call fails.                    *)
(***************************************************************************)
InitRepoLog ==
    /\ StoreAtRest
    /\ RepoAtRest
    /\ SessAtRest
    /\ disk = StorageSet(StorageSet(EmptyDisk, SHARIAA_SESSIONS, FullList),
                         SESSION_INTERACTIONS, StoredLog)
    /\ sessionInteractions = StoredLog
    /\ event = NoEvent
    /\ budget = MaxRepoCalls

SpecRepoLog == InitRepoLog /\ [][NextRepo]_vars

InitStore ==
    /\ StoreAtRest
    /\ RepoAtRest
    /\ SessAtRest
    /\ disk = EmptyDisk
    /\ sessionInteractions = <<>>
    /\ event = NoEvent
    /\ budget = 0

NextStore ==
    \/ \E value \in Values : SetItemBegin(value)
    \/ SetManifest
    \/ SetChunk
    \/ SetCleanupDirect
    \/ DeleteChunksRead
    \/ DeleteChunk
    \/ DeleteManifest
    \/ SetDirect
    \/ DeleteItemBegin
    \/ DeleteDirect
    \/ GetItem

SpecStore == InitStore /\ [][NextStore]_vars

\* The same layer with SecureStore calls that may reject, for a value
\* stored directly and values of two and of three chunks.
FaultValues ==
    {<<"a">>, <<"a", "b", "a">>, <<"b", "b", "a", "b", "a">>}

NextStoreFaults ==
    \/ \E value \in FaultValues : SetItemOver(value)
    \/ SetManifest
    \/ SetChunk
    \/ SetCleanupDirect
    \/ DeleteChunksRead
    \/ DeleteChunk
    \/ DeleteManifest
    \/ SetDirect
    \/ DeleteItemBegin
    \/ DeleteDirect
    \/ GetItem
    \/ PrimitiveThrows
    \/ GetItemThrows

SpecStoreFaults == InitStore /\ [][NextStoreFaults]_vars

(***************************************************************************)
(* The same layer with the values of all setItemAsync calls recorded, for  *)
(* at most MaxPuts calls.                                                  *)
(***************************************************************************)
SetItemBeginLogged(value) ==
    /\ Cardinality(putLog) < MaxPuts
    /\ value \notin putLog
    /\ SetItemCall(value)
    /\ putLog' = putLog \cup {value}

NextStoreHist ==
    \/ \E value \in Values : SetItemBeginLogged(value)
    \/ SetManifest
    \/ SetChunk
    \/ SetCleanupDirect
    \/ DeleteChunksRead
    \/ DeleteChunk
    \/ DeleteManifest
    \/ SetDirect
    \/ DeleteItemBegin
    \/ DeleteDirect
    \/ GetItem

SpecStoreHist == InitStore /\ [][NextStoreHist]_vars

(***************************************************************************)
(* The orchestrator from a fresh install: one upload, load or term         *)
(* operation at a time, clearSession and restarts at any moment, the       *)
(* storage writes of clearSession and saveSessionData one by one.          *)
(***************************************************************************)
Init ==
    /\ StoreAtRest
    /\ RepoAtRest
    /\ SessAtRest
    /\ disk = EmptyDisk
    /\ sessionInteractions = <<>>
    /\ event = NoEvent
    /\ budget = MaxUserCalls

Next ==
    \/ ClearSessionCall
    \/ \E k \in 1..3 : ClearSessionDelete(k)
    \/ \E run \in saves : SaveSessionData(run)
    \/ \E c \in MainSlots, validFile \in BOOLEAN : UploadCall(c, validFile)
    \/ \E c \in MainSlots, newId \in MainSessions : UploadResolved(c, newId)
    \/ \E c \in MainSlots, message \in Messages : UploadRejected(c, message)
    \/ \E c \in MainSlots, sid \in MainSessions : LoadCall(c, sid)
    \/ \E c \in MainSlots, isArray \in BOOLEAN : LoadResolved(c, isArray)
    \/ \E c \in MainSlots : LoadSaved(c)
    \/ \E c \in MainSlots, message \in Messages : LoadRejected(c, message)
    \/ \E c \in MainSlots : UploadReturn(c)
    \/ \E c \in MainSlots, termId \in TermIds : AskCall(c, termId)
    \/ \E c \in MainSlots, termId \in TermIds : ReviewCall(c, termId)
    \/ \E c \in MainSlots, termId \in TermIds : ConfirmCall(c, termId)
    \/ \E c \in MainSlots : AskResolved(c)
    \/ \E c \in MainSlots, stillValid \in BOOLEAN : ReviewResolved(c, stillValid)
    \/ \E c \in MainSlots : ConfirmResolved(c)
    \/ \E c \in MainSlots : TermReturn(c)
    \/ \E c \in MainSlots : TermRejected(c)
    \/ \E c \in MainSlots : GeneralCall(c)
    \/ \E c \in MainSlots, op \in {"modified", "marked"} : GenerateCall(c, op)
    \/ \E c \in MainSlots : GeneralResolved(c)
    \/ \E c \in MainSlots, success \in BOOLEAN : GenerateResolved(c, success)
    \/ \E c \in MainSlots : SessionOpReturn(c)
    \/ \E c \in MainSlots : SessionOpRejected(c)
    \/ \E c \in MainSlots, termId \in TermIds, verdict \in BOOLEAN :
          FeedbackCall(c, termId, verdict)
    \/ \E c \in MainSlots : FeedbackResolved(c)
    \/ Restart

Spec == Init /\ [][Next]_vars

(***************************************************************************)
(* Sessions loaded from the history one after the other, the              *)
(* saveSessionData runs they start, and restarts of the app.               *)
(***************************************************************************)
SnapshotSessions == {1, 2, 3}

NextSnapshot ==
    \/ \E sid \in SnapshotSessions, isArray \in BOOLEAN :
          LoadSessionFromHistory(sid, isArray)
    \/ \E run \in saves : SaveSessionData(run)
    \/ Restart

SpecSnapshot == Init /\ [][NextSnapshot]_vars

(***************************************************************************)
(* Uploads alone, with the progress interval running.                      *)
(***************************************************************************)
NextUpload ==
    \/ ClearSessionCall
    \/ \E k \in 1..3 : ClearSessionDelete(k)
    \/ \E run \in saves : SaveSessionData(run)
    \/ \E increment \in Increments : ProgressTick(increment)
    \/ \E c \in MainSlots, validFile \in BOOLEAN : UploadCall(c, validFile)
    \/ \E c \in MainSlots, newId \in UploadSessions : UploadResolved(c, newId)
    \/ \E c \in MainSlots, message \in Messages : UploadRejected(c, message)
    \/ \E c \in MainSlots, isArray \in {TRUE} : LoadResolved(c, isArray)
    \/ \E c \in MainSlots : LoadSaved(c)
    \/ \E c \in MainSlots, message \in Messages : LoadRejected(c, message)
    \/ \E c \in MainSlots : UploadReturn(c)

SpecUpload == Init /\ [][NextUpload]_vars

(***************************************************************************)
(* The term operations on a loaded session, two of them at a time.  The    *)
(* initial state is the one loadSessionData(1) leaves on a fresh install   *)
(* once its storage writes are done.                                       *)
(***************************************************************************)
LoadedState(sid) ==
    [InitialState EXCEPT
        !.sessionId = sid, !.selectedSessionId = sid,
        !.sessionDetails = loadedDetails(sid, <<>>),
        !.analysisTerms = loadedTerms(sid, TRUE, <<>>)]

LoadedDisk(sid) ==
    [key \in storageKeys |->
        IF key = SHARIAA_SESSIONS
        THEN Some(saveSessionLocally(<<>>, getSessionDetails(sid), <<>>))
        ELSE IF key = CURRENT_SESSION_ID THEN Some(sid)
        ELSE IF key = CURRENT_ANALYSIS_TERMS
        THEN Some(essentialTerms(LoadedState(sid).analysisTerms[1]))
        ELSE IF key = CURRENT_SESSION_DETAILS
        THEN Some(essentialDetails(LoadedState(sid).sessionDetails[1]))
        ELSE None]

InitTerms ==
    /\ StoreAtRest
    /\ RepoAtRest
    /\ st = LoadedState(1)
    /\ calls = [c \in Slots |-> NoOrchestratorCall]
    /\ timers = 0
    /\ clears = <<0, 0, 0>>
    /\ saves = {}
    /\ afterClear = FALSE
    /\ disk = LoadedDisk(1)
    /\ sessionInteractions = <<>>
    /\ event = NoEvent
    /\ budget = MaxUserCalls

NextTerms ==
    \/ ClearSessionCall
    \/ \E k \in 1..3 : ClearSessionDelete(k)
    \/ \E run \in saves : SaveSessionData(run)
    \/ \E c \in Slots, termId \in TermIds : AskCall(c, termId)
    \/ \E c \in Slots, termId \in TermIds : ReviewCall(c, termId)
    \/ \E c \in Slots, termId \in TermIds : ConfirmCall(c, termId)
    \/ \E c \in Slots : AskResolved(c)
    \/ \E c \in Slots, stillValid \in BOOLEAN : ReviewResolved(c, stillValid)
    \/ \E c \in Slots : ConfirmResolved(c)
    \/ \E c \in Slots : TermReturn(c)
    \/ \E c \in Slots : TermRejected(c)

SpecTerms == InitTerms /\ [][NextTerms]_vars

(***************************************************************************)
(* Expert feedback on a loaded session, two submissions at a time.         *)
(***************************************************************************)
NextFeedback ==
    \/ \E run \in saves : SaveSessionData(run)
    \/ \E c \in Slots, termId \in TermIds, verdict \in BOOLEAN :
          FeedbackCall(c, termId, verdict)
    \/ \E c \in Slots : FeedbackResolved(c)
    \/ \E c \in Slots : TermReturn(c)
    \/ \E c \in Slots : TermRejected(c)

SpecFeedback == InitTerms /\ [][NextFeedback]_vars

(***************************************************************************)
(* complianceStats over the term lists a session can be loaded with: the   *)
(* server's verdicts, confirmations and expert overrides of a term in      *)
(* every combination, in lists of no term, one term and two.  From each,   *)
(* one review, confirmation or expert feedback at a time.                  *)
(***************************************************************************)
MaxStatsCalls == 1

OptionalVerdicts == {None, Some(TRUE), Some(FALSE)}

\* api.getSessionTerms: a term as the server may hold it.
ServerTerms(termId) ==
    {[ApiTerm(termId, valid) EXCEPT
         !.expert_override_is_valid_sharia = override,
         !.has_expert_feedback = IF override = None THEN None ELSE Some(TRUE),
         !.isUserConfirmed = confirmed,
         !.isReviewedSuggestionValid = reviewed] :
      valid \in BOOLEAN, override \in OptionalVerdicts,
      confirmed \in {None, Some(TRUE)}, reviewed \in OptionalVerdicts}

\* The second term is as the analysis left it.
TermLists ==
    {<<>>} \cup {<<a>> : a \in ServerTerms("t1")}
           \cup {<<a, ApiTerm("t2", valid)>> :
                    a \in ServerTerms("t1"), valid \in BOOLEAN}

InitStats ==
    /\ StoreAtRest
    /\ RepoAtRest
    /\ \E terms \in TermLists :
          /\ st = [LoadedState(1) EXCEPT !.analysisTerms = Some(terms)]
          /\ disk = [LoadedDisk(1) EXCEPT ![CURRENT_ANALYSIS_TERMS] =
                                             Some(essentialTerms(terms))]
    /\ calls = [c \in Slots |-> NoOrchestratorCall]
    /\ timers = 0
    /\ clears = <<0, 0, 0>>
    /\ saves = {}
    /\ afterClear = FALSE
    /\ sessionInteractions = <<>>
    /\ event = NoEvent
    /\ budget = MaxStatsCalls

NextStats ==
    \/ \E run \in saves : SaveSessionData(run)
    \/ \E c \in MainSlots, termId \in TermIds : ReviewCall(c, termId)
    \/ \E c \in MainSlots, termId \in TermIds : ConfirmCall(c, termId)
    \/ \E c \in MainSlots, termId \in TermIds, verdict \in BOOLEAN :
          FeedbackCall(c, termId, verdict)
    \/ \E c \in MainSlots, stillValid \in BOOLEAN : ReviewResolved(c, stillValid)
    \/ \E c \in MainSlots : ConfirmResolved(c)
    \/ \E c \in MainSlots : FeedbackResolved(c)
    \/ \E c \in MainSlots : TermReturn(c)
    \/ \E c \in MainSlots : TermRejected(c)

SpecStats == InitStats /\ [][NextStats]_vars

(***************************************************************************)
(* C1.  Round trip over the chunk boundary: once setItemAsync(k, V) with   *)
(* Len(V) > ChunkSize has completed, whatever the store held before, a     *)
(* getItemAsync(k) that follows returns exactly V.                         *)
(***************************************************************************)
C1_RoundTrip ==
    (sop.name = "set" /\ sop.pc = "done" /\ Len(sop.value) > ChunkSize
        /\ getResult # UNREAD)
    => getResult = sop.value

\* A value of exactly two chunks read back over the left-over third chunk
\* of an earlier, longer value.
C1_Witness ==
    /\ sop.name = "set" /\ sop.pc = "done"
    /\ Len(sop.value) = 2 * ChunkSize
    /\ getResult = sop.value
    /\ ChunkKey(2) \in DOMAIN secureStore

(***************************************************************************)
(* C2.  After deleteItemAsync(k) has completed, SecureStore holds no       *)
(* entry of k: not k, not k_chunks, no k_chunk_i.  (k is the only logical  *)
(* key, so the store is then empty.)                                       *)
(***************************************************************************)
C2_DeleteLeavesNothing ==
    (sop.name = "delete" /\ sop.pc = "done") => DOMAIN secureStore = {}

(***************************************************************************)
(* C3.  Manifest integrity in every reachable store state, the states      *)
(* between the primitive writes of one setItemAsync included: when         *)
(* k_chunks holds n, the chunks 0..n-1 are all present and their           *)
(* concatenation is a value setItemAsync was called with.                  *)
(***************************************************************************)
C3_ManifestIntegrity ==
    ManifestKey \in DOMAIN secureStore =>
        LET n == parseInt(secureStore[ManifestKey])
        IN  /\ \A i \in 0..(n - 1) : ChunkKey(i) \in DOMAIN secureStore
            /\ ReadChunks(secureStore, 0, n) \in putLog

(***************************************************************************)
(* C4.  Once setItemAsync(k, V) with Len(V) <= ChunkSize has completed,    *)
(* no manifest k_chunks exists.                                            *)
(***************************************************************************)
C4_NoManifestAfterDirectPut ==
    (sop.name = "set" /\ sop.pc = "done" /\ Len(sop.value) <= ChunkSize)
    => ManifestKey \notin DOMAIN secureStore

\* A direct put over a key that held chunked values before: the third
\* chunk of the longest one is still there.
C4_Witness ==
    /\ sop.name = "set" /\ sop.pc = "done"
    /\ Len(sop.value) <= ChunkSize
    /\ ManifestKey \notin DOMAIN secureStore
    /\ ChunkKey(2) \in DOMAIN secureStore
    /\ getItemAsync(secureStore) = sop.value

(***************************************************************************)
(* C5.  Per-term mutual exclusion: in no reachable state are two of the    *)
(* term operations askQuestionAboutTerm, reviewUserModification,           *)
(* confirmTermModification in flight for the same term identifier.         *)
(***************************************************************************)
C5_PerTermExclusion ==
    \A a, b \in Slots :
        (/\ a # b
         /\ calls[a].op \in {"ask", "review", "confirm"}
         /\ calls[b].op \in {"ask", "review", "confirm"})
        => calls[a].termId # calls[b].termId

(***************************************************************************)
(* C6.  Stale-response safety: when clearSession ran (by itself or at the  *)
(* start of an upload) while the external call of an operation was in      *)
(* flight, the step in which that call succeeds leaves sessionId,          *)
(* analysisTerms, sessionDetails, sessionInteractions and the three        *)
(* snapshot keys as they were.                                             *)
(***************************************************************************)
LateSuccess(c) ==
    /\ calls[c].stale
    /\ \/ calls[c].pc = "uploadContract" /\ calls'[c].pc = "load"
       \/ calls[c].pc = "load" /\ calls'[c].pc = "saveSessionLocally"
       \/ /\ calls[c].pc \in {"askQuestion", "reviewUserModification",
                              "confirmTermModification"}
          /\ calls'[c].pc = "addInteraction"

C6_StaleResponseIsNoOp ==
    [][\A c \in Slots :
          LateSuccess(c) =>
              /\ st'.sessionId = st.sessionId
              /\ st'.analysisTerms = st.analysisTerms
              /\ st'.sessionDetails = st.sessionDetails
              /\ sessionInteractions' = sessionInteractions
              /\ disk'[CURRENT_SESSION_ID] = disk[CURRENT_SESSION_ID]
              /\ disk'[CURRENT_ANALYSIS_TERMS] = disk[CURRENT_ANALYSIS_TERMS]
              /\ disk'[CURRENT_SESSION_DETAILS] = disk[CURRENT_SESSION_DETAILS]]_vars

(***************************************************************************)
(* C7.  clearSession called while an upload is in flight: once its three   *)
(* deletes are done, and until the user starts another operation,          *)
(* isUploading and isAnalyzingContract are false, uploadProgress is 0,     *)
(* the per-term flag maps are empty and the three snapshot keys are        *)
(* absent.                                                                 *)
(***************************************************************************)
C7_ClearDuringUploadHolds ==
    (afterClear /\ PendingClears = 0)
    => /\ ~st.isUploading
       /\ ~st.isAnalyzingContract
       /\ st.uploadProgress = 0
       /\ st.isTermProcessing = <<>>
       /\ st.isReviewingModification = <<>>
       /\ disk[CURRENT_SESSION_ID] = None
       /\ disk[CURRENT_ANALYSIS_TERMS] = None
       /\ disk[CURRENT_SESSION_DETAILS] = None

(***************************************************************************)
(* C8.  When uploadAndAnalyzeContract returns after the upload or the      *)
(* session load failed, it returns no identifier and uploadError and       *)
(* analysisError are both set; when it returns an identifier, that session *)
(* is the active one and its terms are loaded.                             *)
(***************************************************************************)
C8_ReturnedIdIsActive ==
    event.name = "uploadAndAnalyzeContract.return"
    => /\ event.failed => /\ event.id = 0
                          /\ st.uploadError # NoError
                          /\ st.analysisError # NoError
       /\ event.id # 0 => /\ st.sessionId = event.id
                          /\ st.analysisTerms # None

(***************************************************************************)
(* C9.  Restart recovery: after a restart the session is in memory exactly *)
(* when storage holds both the session identifier and the term snapshot,   *)
(* and then with the stored values; sessionDetails is in memory exactly    *)
(* when the session was restored and storage holds the details; an         *)
(* identifier without terms, or terms without an identifier, restores      *)
(* nothing.                                                                *)
(***************************************************************************)
C9_RestartRecovery ==
    event.name = "restart"
    => LET both == /\ disk[CURRENT_SESSION_ID] # None
                   /\ disk[CURRENT_ANALYSIS_TERMS] # None
       IN  /\ st.sessionId # 0 <=> both
           /\ st.analysisTerms # None <=> both
           /\ both => /\ st.sessionId = disk[CURRENT_SESSION_ID][1]
                      /\ st.analysisTerms = disk[CURRENT_ANALYSIS_TERMS]
           /\ st.sessionDetails # None
                 <=> (both /\ disk[CURRENT_SESSION_DETAILS] # None)
           /\ st.sessionDetails # None
                 => st.sessionDetails = disk[CURRENT_SESSION_DETAILS]

\* A restart that brought a session back, details included.
C9_Witness ==
    /\ event.name = "restart"
    /\ st.sessionId # 0
    /\ st.analysisTerms # None
    /\ st.sessionDetails # None

(***************************************************************************)
(* C10.  The stored session list never holds more than MaxStoredSessions   *)
(* records, whatever calls of saveSessionLocally, deleteLocalSession and   *)
(* bookmarkSession ran; and saveSessionLocally of a new identifier over a  *)
(* full list writes the new record first, then the records it read except  *)
(* the last one, in their order (each as read or as its minimal            *)
(* projection).                                                            *)
(***************************************************************************)
C10_ListBounded ==
    LET written == getLocalSessions(disk)
    IN  /\ Len(written) <= MaxStoredSessions
        /\ (/\ event.name = "saveSessionLocally"
            /\ Len(event.read) = MaxStoredSessions
            /\ FindIndex(event.read, event.id) = 0)
           => /\ Len(written) = MaxStoredSessions
              /\ written[1].session_id = event.id
              /\ \A i \in 2..MaxStoredSessions :
                    written[i] \in {event.read[i - 1],
                                    minimalSession(event.read[i - 1])}

\* A new identifier saved over a full list: the last record read is gone.
C10_Witness ==
    /\ event.name = "saveSessionLocally"
    /\ Len(event.read) = MaxStoredSessions
    /\ FindIndex(event.read, event.id) = 0
    /\ Ids(getLocalSessions(disk)) =
          <<event.id>> \o SubSeq(Ids(event.read), 1, MaxStoredSessions - 1)
    /\ FindIndex(getLocalSessions(disk),
                 event.read[MaxStoredSessions].session_id) = 0

(***************************************************************************)
(* C11.  saveSessionLocally of an identifier that is in the list it read   *)
(* writes a list of the same length with the new record at the position    *)
(* of the old one and every other record at its position (as read, or as   *)
(* its minimal projection).                                                *)
(***************************************************************************)
C11_UpsertInPlace ==
    (event.name = "saveSessionLocally" /\ FindIndex(event.read, event.id) > 0)
    => LET written == getLocalSessions(disk)
           existingIndex == FindIndex(event.read, event.id)
       IN  /\ Len(written) = Len(event.read)
           /\ written[existingIndex].session_id = event.id
           /\ written[existingIndex].isBookmarked = None
           /\ \A i \in 1..Len(written) :
                 i # existingIndex =>
                     written[i] \in {event.read[i], minimalSession(event.read[i])}

\* A bookmarked record in the middle of a full list saved again.
C11_Witness ==
    /\ event.name = "saveSessionLocally"
    /\ Len(event.read) = MaxStoredSessions
    /\ FindIndex(event.read, event.id) = 2
    /\ event.read[2].isBookmarked = Some(TRUE)
    /\ Ids(getLocalSessions(disk)) = Ids(event.read)
    /\ getLocalSessions(disk)[2] # event.read[2]

(***************************************************************************)
(* C12.  When uploadAndAnalyzeContract, called with no session active and  *)
(* not cleared meanwhile, returns after a successful upload and load, the  *)
(* interaction log is the log of the call's start with one entry more: a   *)
(* question_asked entry with the identifier of the new session.            *)
(***************************************************************************)
C12_UploadMarksTheLog ==
    [][\A c \in Slots :
          (/\ calls[c].op = "upload" /\ calls[c].pc = "addInteraction"
           /\ calls[c].sid = 0 /\ ~calls[c].failed /\ ~calls[c].stale
           /\ event'.name = "uploadAndAnalyzeContract.return")
          => sessionInteractions' =
                <<Interaction(calls[c].arg, "question_asked", "")>> \o calls[c].log]_vars

(***************************************************************************)
(* C13.  The interaction log is append-only: no step of the orchestrator   *)
(* takes an entry out of sessionInteractions or out of the stored copy,    *)
(* and neither gets shorter (deleteLocalSession is not among the steps).   *)
(***************************************************************************)
\* Every entry of `before` is in `after`, which is no shorter.
Keeps(before, after) ==
    /\ Len(after) >= Len(before)
    /\ \A i \in 1..Len(before) : \E j \in 1..Len(after) : after[j] = before[i]

C13_LogAppendOnly ==
    [][/\ Keeps(sessionInteractions, sessionInteractions')
       /\ Keeps(loadInteractions(disk), loadInteractions(disk'))]_vars

(***************************************************************************)
(* C14.  uploadAndAnalyzeContract with a file that has no name (or no      *)
(* type) returns no identifier, leaves uploadError and analysisError set,  *)
(* and is over without having awaited api.uploadContract.                  *)
(***************************************************************************)
C14_InvalidFileRejected ==
    (event.name = "uploadAndAnalyzeContract.return" /\ st.error = InvalidFile)
    => /\ event.id = 0
       /\ st.uploadError # NoError
       /\ st.analysisError # NoError
       /\ ~InFlight(event.slot)

\* An invalid file given while a session was active: the session is gone,
\* the errors are there.
C14_Witness ==
    /\ event.name = "uploadAndAnalyzeContract.return"
    /\ event.failed
    /\ st.uploadError = InvalidFile
    /\ st.analysisError = InvalidFile
    /\ st.sessionId = 0
    /\ disk[SHARIAA_SESSIONS] # None

(***************************************************************************)
(* C15.  Lifecycle order Idle, Uploading, Analyzing, Ready: while          *)
(* api.uploadContract is awaited (and the session was not cleared          *)
(* meanwhile) the upload is marked in progress and the analysis is not.    *)
(***************************************************************************)
C15_AnalysisAfterUpload ==
    \A c \in Slots :
        (calls[c].pc = "uploadContract" /\ ~calls[c].stale)
        => (st.isUploading /\ ~st.isAnalyzingContract)

(***************************************************************************)
(* C16.  clearSession is idempotent and safe with nothing active: the call *)
(* leaves no session identifier, terms or details, every loading flag      *)
(* false and every error field null, and changes nothing of a state that   *)
(* is already so; each of its three deletes leaves its key absent, and     *)
(* leaves storage as it was when the key was absent already.               *)
(***************************************************************************)
Cleared(s) ==
    /\ s.sessionId = 0 /\ s.analysisTerms = None /\ s.sessionDetails = None
    /\ ~s.isUploading /\ s.uploadProgress = 0 /\ ~s.isAnalyzingContract
    /\ ~s.isFetchingSession /\ s.isTermProcessing = <<>>
    /\ ~s.isGeneratingContract /\ ~s.isGeneratingMarkedContract
    /\ ~s.isAskingQuestion /\ s.isReviewingModification = <<>>
    /\ ~s.isProcessingGeneralQuestion
    /\ s.error = NoError /\ s.uploadError = NoError /\ s.analysisError = NoError

C16_ClearIdempotent ==
    [][/\ ClearSessionCall => /\ Cleared(st')
                              /\ Cleared(st) => st' = st
       /\ \A k \in 1..3 :
             ClearSessionDelete(k)
             => /\ disk'[SnapshotKey(k)] = None
                /\ disk[SnapshotKey(k)] = None => disk' = disk]_vars

\* A clearSession run at its last delete with nothing left to clear: the
\* session that had been loaded is gone from memory and from the three keys.
C16_Witness ==
    /\ budget = 0
    /\ clears = <<0, 0, 1>>
    /\ saves = {}
    /\ \A c \in Slots : ~InFlight(c)
    /\ Cleared(st)
    /\ st.selectedSessionId # 0
    /\ \A k \in 1..3 : disk[SnapshotKey(k)] = None
    /\ disk[SHARIAA_SESSIONS] # None

(***************************************************************************)
(* C17.  When a fetch of loadSessionData is rejected, then as the call     *)
(* returns no session is active (no identifier, terms or details),         *)
(* isFetchingSession is false and error holds the message of the failure.  *)
(***************************************************************************)
C17_LoadFailureSurfaces ==
    [][\A c \in Slots, message \in Messages :
          (LoadRejected(c, message) /\ calls[c].op = "load")
          => /\ st'.sessionId = 0
             /\ st'.analysisTerms = None
             /\ st'.sessionDetails = None
             /\ ~st'.isFetchingSession
             /\ st'.error = message]_vars

(***************************************************************************)
(* C18.  Every busy flag is cleared: in the step in which an operation     *)
(* returns, after its external call resolved or was rejected, the busy     *)
(* flags of that operation are false.                                      *)
(***************************************************************************)
FlagOff(map, termId) == termId \in DOMAIN map => ~map[termId]

BusyFlagsOff(call, s) ==
    /\ call.op = "upload" => ~s.isUploading /\ ~s.isAnalyzingContract
    /\ call.op = "load" => ~s.isFetchingSession
    /\ call.op = "ask" => /\ ~s.isAskingQuestion
                          /\ FlagOff(s.isTermProcessing, call.termId)
    /\ call.op = "review" => FlagOff(s.isReviewingModification, call.termId)
    /\ call.op = "confirm" => FlagOff(s.isTermProcessing, call.termId)
    /\ call.op = "general" => /\ ~s.isProcessingGeneralQuestion
                              /\ ~s.isAskingQuestion
    /\ call.op = "modified" => ~s.isGeneratingContract
    /\ call.op = "marked" => ~s.isGeneratingMarkedContract

C18_BusyFlagsCleared ==
    [][\A c \in Slots :
          (InFlight(c) /\ calls'[c].pc = "idle" /\ event'.name # "restart")
          => BusyFlagsOff(calls[c], st')]_vars

\* A question about t1 has returned with the session still active.
C18_Witness ==
    /\ st.sessionId # 0
    /\ \A c \in Slots : ~InFlight(c)
    /\ "t1" \in DOMAIN st.isTermProcessing
    /\ ~st.isTermProcessing["t1"]
    /\ ~st.isAskingQuestion
    /\ HasTerm(st.analysisTerms, "t1")
    /\ \E i \in 1..Len(st.analysisTerms[1]) :
          st.analysisTerms[1][i].currentQaAnswer # None

(***************************************************************************)
(* C19.  While api.uploadContract is awaited (and the session was not      *)
(* cleared meanwhile), uploadProgress never goes down and is never above   *)
(* 90, whatever the ticks of the interval add.                             *)
(***************************************************************************)
C19_ProgressCeiling ==
    [][\A c \in Slots :
          (/\ calls[c].pc = "uploadContract" /\ ~calls[c].stale
           /\ calls'[c].pc = "uploadContract" /\ ~calls'[c].stale)
          => /\ st'.uploadProgress >= st.uploadProgress
             /\ st'.uploadProgress <= 90]_vars

(***************************************************************************)
(* C20.  With no uploadAndAnalyzeContract in flight uploadProgress is 0:   *)
(* it is 0 when an upload has returned and stays 0 until the next starts.  *)
(***************************************************************************)
C20_ProgressZeroAfterUpload ==
    (\A c \in Slots : calls[c].op # "upload") => st.uploadProgress = 0

(***************************************************************************)
(* C21.  askQuestionAboutTerm for a term identifier that is not in the     *)
(* term list returns null at once: api.askQuestion is not called (no call  *)
(* is left waiting), and the state, with isTermProcessing,                 *)
(* isAskingQuestion and the term list, the interaction log and storage     *)
(* are as they were.                                                       *)
(***************************************************************************)
C21_AskUnknownTerm ==
    [][\A c \in Slots, termId \in TermIds :
          (/\ AskCall(c, termId)
           /\ st.analysisTerms # None
           /\ \A i \in 1..Len(st.analysisTerms[1]) :
                 st.analysisTerms[1][i].term_id # termId)
          => /\ event'.name = "askQuestionAboutTerm"
             /\ event'.failed
             /\ calls' = calls
             /\ st' = st
             /\ sessionInteractions' = sessionInteractions
             /\ disk' = disk]_vars

\* askQuestionAboutTerm has returned null with a session active whose term
\* list is not empty: the term asked about is not in it.
C21_Witness ==
    /\ event.name = "askQuestionAboutTerm"
    /\ event.failed
    /\ st.sessionId # 0
    /\ st.analysisTerms # None
    /\ Len(st.analysisTerms[1]) > 0

(***************************************************************************)
(* What a term adds to currentUserEffectiveCompliantCount: the count of    *)
(* the list against the count of the list without the term.                *)
(***************************************************************************)
Without(list, i) == SubSeq(list, 1, i - 1) \o SubSeq(list, i + 1, Len(list))

CountedCompliant(list, i) ==
    complianceStats(Some(list))[1].currentUserEffectiveCompliantCount
        - complianceStats(Some(Without(list, i)))[1].currentUserEffectiveCompliantCount
      = 1

(***************************************************************************)
(* C22.  Compliance precedence: a term with an expert override verdict is  *)
(* counted compliant exactly when that verdict is true, whatever the       *)
(* user's confirmation, the reviewed suggestion's validity and the         *)
(* original verdict are.                                                   *)
(***************************************************************************)
C22_ExpertOverrideDecides ==
    st.analysisTerms # None =>
        \A i \in 1..Len(st.analysisTerms[1]) :
            LET t == st.analysisTerms[1][i]
            IN  t.expert_override_is_valid_sharia # None =>
                   (CountedCompliant(st.analysisTerms[1], i)
                        <=> t.expert_override_is_valid_sharia[1])

\* An expert has overridden, by a submission made here, a term to not valid
\* whose modification the user has confirmed and whose reviewed suggestion
\* is valid.
C22_Witness ==
    /\ st.analysisTerms # None
    /\ \E i \in 1..Len(st.analysisTerms[1]) :
          LET t == st.analysisTerms[1][i]
          IN  /\ t.expertFeedbackHistory # None
              /\ t.expert_override_is_valid_sharia = Some(FALSE)
              /\ t.isUserConfirmed = Some(TRUE)
              /\ t.isReviewedSuggestionValid = Some(TRUE)
              /\ ~CountedCompliant(st.analysisTerms[1], i)

(***************************************************************************)
(* C23.  Optimistic default: a term without an expert override and         *)
(* without a reviewed-suggestion validity is counted compliant when the    *)
(* user has confirmed its modification, whatever its original verdict;     *)
(* when the modification is not confirmed, it is counted compliant         *)
(* exactly when its original verdict is valid.                             *)
(***************************************************************************)
C23_OptimisticDefault ==
    st.analysisTerms # None =>
        \A i \in 1..Len(st.analysisTerms[1]) :
            LET t == st.analysisTerms[1][i]
            IN  (/\ t.expert_override_is_valid_sharia = None
                 /\ t.isReviewedSuggestionValid = None)
                => IF t.isUserConfirmed = Some(TRUE)
                   THEN CountedCompliant(st.analysisTerms[1], i)
                   ELSE CountedCompliant(st.analysisTerms[1], i)
                            <=> t.is_valid_sharia

\* confirmTermModification has confirmed a text for a term that the
\* analysis found not valid, that was never reviewed and has no expert
\* override: it is counted compliant.
C23_Witness ==
    /\ st.analysisTerms # None
    /\ \E i \in 1..Len(st.analysisTerms[1]) :
          LET t == st.analysisTerms[1][i]
          IN  /\ t.userModifiedText = Some("confirmed")
              /\ t.isUserConfirmed = Some(TRUE)
              /\ t.expert_override_is_valid_sharia = None
              /\ t.isReviewedSuggestionValid = None
              /\ ~t.is_valid_sharia
              /\ CountedCompliant(st.analysisTerms[1], i)

(***************************************************************************)
(* C24.  The statistics of an empty term list are all 0; those of a        *)
(* non-empty list have compliant + non-compliant = total and the           *)
(* percentage compliant * 100 / total, from 0 to 100.                      *)
(***************************************************************************)
C24_StatsTotals ==
    st.analysisTerms # None =>
        LET stats == complianceStats(st.analysisTerms)[1]
            total == Len(st.analysisTerms[1])
        IN  /\ stats.totalTerms = total
            /\ stats.currentUserEffectiveCompliantCount
                  + stats.currentUserEffectiveNonCompliantCount = total
            /\ stats.currentUserEffectiveCompliantCount \in 0..total
            /\ stats.overallCompliancePercentage \in 0..100
            /\ stats.overallCompliancePercentage * total
                  = stats.currentUserEffectiveCompliantCount * 100
            /\ total = 0 =>
                  /\ stats.currentUserEffectiveCompliantCount = 0
                  /\ stats.currentUserEffectiveNonCompliantCount = 0
                  /\ stats.overallCompliancePercentage = 0

\* After an operation has changed a term, one of two terms counts as
\* compliant: 50 percent.
C24_Witness ==
    /\ st.analysisTerms # None
    /\ Len(st.analysisTerms[1]) = 2
    /\ \E i \in 1..2 : st.analysisTerms[1][i].interactionCount = Some(1)
    /\ complianceStats(st.analysisTerms)[1].currentUserEffectiveCompliantCount = 1
    /\ complianceStats(st.analysisTerms)[1].overallCompliancePercentage = 50

(***************************************************************************)
(* C25.  A SecureStore error during setItemAsync, getItemAsync or          *)
(* deleteItemAsync, other than in a cleanup, makes the storage call fail:  *)
(* a write or delete ends with the error thrown, and a get is rejected     *)
(* and does not give null, the value of a key that is not there.           *)
(***************************************************************************)
C25_PrimitiveErrorsPropagate ==
    [][/\ (PrimitiveThrows /\ sop.pc \notin CleanupPcs \cup {"set_cleanup"})
             => sop'.pc = "failed"
       /\ GetItemThrows => getResult' # NULL]_vars

(***************************************************************************)
(* C26.  A storage failure does not change what a list call leaves in      *)
(* memory: when a write of saveSessionLocally, bookmarkSession or          *)
(* deleteLocalSession fails, the call returns and sessionInteractions is   *)
(* what the call leaves with a working storage, that is, unchanged for     *)
(* the first two and without the interactions of the deleted session for   *)
(* the third.                                                              *)
(***************************************************************************)
C26_StorageFailureSwallowed ==
    [][\A c \in RepoSlots :
          (RepoWriteFails(c) \/ DeleteSessionLogFails(c))
          => /\ rcalls'[c] = NoCall
             /\ sessionInteractions' =
                   IF rcalls[c].op = "deleteLocalSession"
                   THEN SelectSeq(rcalls[c].log,
                                  LAMBDA i : i.sessionId # rcalls[c].id)
                   ELSE sessionInteractions]_vars

(***************************************************************************)
(* C27.  saveSessionLocally for an identifier that is not in the list it   *)
(* read writes a list with the new record at index 0 and, behind it, the   *)
(* records it read in their order, up to the limit of the list: the        *)
(* records that fall beyond it are dropped.                                *)
(***************************************************************************)
C27_NewRecordInFront ==
    (event.name = "saveSessionLocally" /\ FindIndex(event.read, event.id) = 0)
    => LET written == getLocalSessions(disk)
       IN  /\ Len(written) = Min(Len(event.read) + 1, MaxStoredSessions)
           /\ written[1].session_id = event.id
           /\ \A i \in 2..Len(written) :
                 written[i] \in {event.read[i - 1], minimalSession(event.read[i - 1])}

\* A new record has been written in front of a full list.
C27_Witness ==
    /\ event.name = "saveSessionLocally"
    /\ FindIndex(event.read, event.id) = 0
    /\ Len(event.read) = MaxStoredSessions
    /\ Ids(getLocalSessions(disk)) =
          <<event.id>> \o SubSeq(Ids(event.read), 1, MaxStoredSessions - 1)

\* C27 as stated: all the records read are kept behind the new one.
C27_AllPreviousKept ==
    (event.name = "saveSessionLocally" /\ FindIndex(event.read, event.id) = 0)
    => Ids(getLocalSessions(disk)) = <<event.id>> \o Ids(event.read)

(***************************************************************************)
(* C28.  Two tiers: saveSessionLocally writes the minimal projection of    *)
(* every record exactly when the text of the list with the full records    *)
(* has a length at or above the limit, and the full records otherwise;     *)
(* either way the identifiers written are those of that list, in order.    *)
(***************************************************************************)
C28_TwoTierUpsert ==
    [][\A c \in RepoSlots :
          SaveSessionWrite(c)
          => LET full == updatedSessions(rcalls[c].read,
                            [session_id |-> rcalls[c].id,
                             analysis_results |-> rcalls[c].results],
                            rcalls[c].log)
                 written == getLocalSessions(disk')
             IN  /\ Ids(written) = Ids(full)
                 /\ written = IF JsonLength(full) >= ListLimit
                              THEN minimalSessions(full)
                              ELSE full]_vars

(***************************************************************************)
(* C29.  The confirmation flag of a term in the list: false after a        *)
(* review of the term has succeeded, true after a confirmation has         *)
(* succeeded, and changed by no other step, so that it is the outcome of   *)
(* the last of the two that succeeded; a review or confirmation that       *)
(* failed leaves the term as it was.                                       *)
(***************************************************************************)
C29_ConfirmationFlag ==
    [][\A termId \in TermIds :
          (HasTerm(st.analysisTerms, termId) /\ HasTerm(st'.analysisTerms, termId))
          => LET before == FindTerm(st.analysisTerms, termId)
                 after  == FindTerm(st'.analysisTerms, termId)
                 reviewed ==
                     \E c \in Slots, stillValid \in BOOLEAN :
                         ReviewResolved(c, stillValid) /\ calls[c].termId = termId
                 confirmed ==
                     \E c \in Slots : ConfirmResolved(c) /\ calls[c].termId = termId
             IN  /\ reviewed => after.isUserConfirmed = Some(FALSE)
                 /\ confirmed => after.isUserConfirmed = Some(TRUE)
                 /\ (\E c \in Slots : TermRejected(c)) => after = before
                 /\ after.isUserConfirmed # before.isUserConfirmed
                       => reviewed \/ confirmed]_vars

\* A term reviewed and then confirmed while another operation on it is
\* still waiting for its answer.
C29_Witness ==
    /\ HasTerm(st.analysisTerms, "t1")
    /\ FindTerm(st.analysisTerms, "t1").isUserConfirmed = Some(TRUE)
    /\ FindTerm(st.analysisTerms, "t1").isReviewedSuggestionValid # None
    /\ FindTerm(st.analysisTerms, "t1").userModifiedText = Some("confirmed")
    /\ \E c \in Slots : calls[c].termId = "t1" /\ calls[c].pc \in ApiPcs

(***************************************************************************)
(* C30.  Every submitExpertFeedback that succeeds for a term in the list   *)
(* marks the term as reviewed by an expert, stores the verdict and adds    *)
(* one entry to the term's feedback history, keeping those that were       *)
(* there, also when two submissions are in flight together.                *)
(***************************************************************************)
C30_FeedbackHistoryGrows ==
    [][\A c \in Slots :
          (FeedbackResolved(c) /\ HasTerm(st.analysisTerms, calls[c].termId))
          => LET before == FindTerm(st.analysisTerms, calls[c].termId)
                 after  == FindTerm(st'.analysisTerms, calls[c].termId)
             IN  /\ after.has_expert_feedback = Some(TRUE)
                 /\ after.expert_override_is_valid_sharia =
                       Some(calls[c].payload[1].expertIsValidSharia)
                 /\ after.expertFeedbackHistory =
                       Some(Coalesce(before.expertFeedbackHistory, <<>>)
                               \o <<calls[c].payload[1]>>)]_vars


(***************************************************************************)
(* C31.  Snapshot persistence skip: in one cycle of saveSessionData a      *)
(* projection (terms or details) whose text is as long as the limit or     *)
(* longer is not written and the value stored under its key stays as it    *)
(* was, while the identifier and the other projection of the cycle are     *)
(* still written; every text written is shorter than the limit, so none is *)
(* ever chunked.                                                           *)
(***************************************************************************)
TermsTooLong(run) ==
    TermsLength(essentialTerms(run.analysisTerms)) >= SnapshotLimit

DetailsTooLong(run) ==
    /\ run.sessionDetails # None
    /\ DetailsLength(essentialDetails(run.sessionDetails[1])) >= SnapshotLimit

DetailsWritable(run) ==
    run.sessionDetails # None /\ ~DetailsTooLong(run)

C31_SkipStep(run) ==
    LET key == IF run.pc = "id" THEN CURRENT_SESSION_ID
               ELSE IF run.pc = "terms" THEN CURRENT_ANALYSIS_TERMS
               ELSE CURRENT_SESSION_DETAILS
        goesOn(pc) == [run EXCEPT !.pc = pc] \in saves'
    IN  /\ run.pc = "terms" => ~TermsTooLong(run)
        /\ run.pc = "details" => ~DetailsTooLong(run)
        /\ \A other \in storageKeys \ {key} : disk'[other] = disk[other]
        /\ disk'[key] # None
        /\ run.pc = "id" => disk'[key] = Some(run.sessionId)
        /\ run.pc = "id" /\ ~TermsTooLong(run) => goesOn("terms")
        /\ run.pc = "id" /\ TermsTooLong(run) /\ DetailsWritable(run)
              => goesOn("details")
        /\ run.pc = "terms" /\ DetailsWritable(run) => goesOn("details")

C31_SnapshotSkip ==
    [][\A run \in saves : SaveSessionData(run) => C31_SkipStep(run)]_vars

\* The cycle skipped the terms, which are too long, and goes on to write
\* the details; the identifier of the cycle is stored, its terms are not.
C31_Witness ==
    \E run \in saves :
        /\ run.pc = "details"
        /\ TermsTooLong(run)
        /\ disk[CURRENT_SESSION_ID] = Some(run.sessionId)
        /\ disk[CURRENT_ANALYSIS_TERMS] # Some(essentialTerms(run.analysisTerms))


(***************************************************************************)
(* C32.  Every operation that needs a session (askQuestionAboutTerm,       *)
(* askGeneralContractQuestion, reviewUserModification,                     *)
(* confirmTermModification, generateModifiedContract,                      *)
(* generateMarkedContract, submitExpertFeedback), called while there is no *)
(* session, returns its negative result at once: no request is made, no    *)
(* interaction is added, no flag and no term changes, nothing is stored.   *)
(***************************************************************************)
SessionOperationCalled(c) ==
    \/ \E termId \in TermIds : AskCall(c, termId)
    \/ \E termId \in TermIds : ReviewCall(c, termId)
    \/ \E termId \in TermIds : ConfirmCall(c, termId)
    \/ \E termId \in TermIds, verdict \in BOOLEAN : FeedbackCall(c, termId, verdict)
    \/ GeneralCall(c)
    \/ \E op \in {"modified", "marked"} : GenerateCall(c, op)

C32_NoSessionNoEffect ==
    [][\A c \in MainSlots :
          st.sessionId = 0 /\ SessionOperationCalled(c)
             => /\ event'.failed
                /\ calls' = calls
                /\ st' = st
                /\ sessionInteractions' = sessionInteractions
                /\ disk' = disk
                /\ saves' = saves]_vars

\* An operation was called without a session and returned its negative
\* result.
C32_Witness ==
    /\ st.sessionId = 0
    /\ event.failed
    /\ event.name \in {"askQuestionAboutTerm", "askGeneralContractQuestion",
                       "reviewUserModification", "confirmTermModification",
                       "generateModifiedContract", "generateMarkedContract",
                       "submitExpertFeedback"}
    /\ \A c \in Slots : ~InFlight(c)


(***************************************************************************)
(* C33.  deleteLocalSession(id) removes from the interaction log, in       *)
(* memory and in storage, the interactions of session id and only those,   *)
(* keeps the others in their order, and removes from the stored session    *)
(* list exactly the records of session id.                                 *)
(***************************************************************************)
Purged(log, sid) == SelectSeq(log, LAMBDA i : i.sessionId # sid)

C33_ListPurged(c) ==
    DeleteSessionWrite(c)
       => getLocalSessions(disk') = deleteFilter(getLocalSessions(disk), rcalls[c].id)

C33_LogPurged(c) ==
    DeleteSessionLog(c)
       => /\ sessionInteractions' = Purged(sessionInteractions, rcalls[c].id)
          /\ loadInteractions(disk') = Purged(loadInteractions(disk), rcalls[c].id)

C33_PurgeExact ==
    [][\A c \in RepoSlots : C33_ListPurged(c) /\ C33_LogPurged(c)]_vars


(***************************************************************************)
(* C34.  bookmarkSession(id) flips the bookmark flag of the record of      *)
(* session id and changes nothing else in the stored list: the records,    *)
(* their order and every other field stay, so a second call brings the     *)
(* flag back; for an identifier that is not in the list the list stays as  *)
(* it is.  An absent flag counts as false.                                 *)
(***************************************************************************)
Bookmarked(record) ==
    record.isBookmarked # None /\ record.isBookmarked[1]

C34_Flipped(before, after, sid) ==
    /\ Len(after) = Len(before)
    /\ \A i \in 1..Len(before) :
          IF before[i].session_id = sid
          THEN /\ [after[i] EXCEPT !.isBookmarked = None]
                     = [before[i] EXCEPT !.isBookmarked = None]
               /\ Bookmarked(after[i]) = ~Bookmarked(before[i])
          ELSE after[i] = before[i]

C34_BookmarkOnly ==
    [][\A c \in RepoSlots :
          BookmarkWrite(c)
             => C34_Flipped(getLocalSessions(disk), getLocalSessions(disk'),
                            rcalls[c].id)]_vars


(***************************************************************************)
(* C35.  Capacity: every entry setItemAsync writes to SecureStore, the     *)
(* single value, the chunk count or a chunk, is at most ChunkSize long,    *)
(* whatever the value and whatever the store held before.                  *)
(***************************************************************************)
C35_Written(key) ==
    /\ key \in DOMAIN secureStore'
    /\ Len(secureStore'[key]) <= ChunkSize

C35_Capacity ==
    [][/\ SetManifest => C35_Written(ManifestKey)
       /\ SetChunk => C35_Written(ChunkKey(sop.i))
       /\ SetDirect => C35_Written(DirectKey)
       /\ sop.name = "set"
             => \A key \in DOMAIN secureStore' :
                   key \notin DOMAIN secureStore
                      => Len(secureStore'[key]) <= ChunkSize]_vars

\* A value of more than two chunks was stored over a single value: the
\* count, a full chunk and the shorter last chunk are in the store.
C35_Witness ==
    /\ sop.name = "set" /\ sop.pc = "done"
    /\ Len(sop.value) > 2 * ChunkSize
    /\ ManifestKey \in DOMAIN secureStore
    /\ ChunkKey(0) \in DOMAIN secureStore
    /\ Len(secureStore[ChunkKey(0)]) = ChunkSize
    /\ ChunkKey(2) \in DOMAIN secureStore
    /\ Len(secureStore[ChunkKey(2)]) < ChunkSize
    /\ getItemAsync(secureStore) = sop.value


(***************************************************************************)
(* C36.  Persisted snapshot consistency: whenever storage holds both the   *)
(* session identifier and the terms and no saveSessionData run is in       *)
(* progress, the stored terms are terms of the session the stored          *)
(* identifier names, so that a restart never brings back one session's     *)
(* identifier with another session's terms; loads of sessions whose terms  *)
(* are too long to be stored included.                                     *)
(***************************************************************************)
TermIdsOf(terms) == [i \in 1..Len(terms) |-> terms[i].term_id]

\* The terms a load of session sid sets: the server's, or none when the
\* response is no array.
TermsOfSession(terms, sid) ==
    \/ terms = <<>>
    \/ TermIdsOf(terms) = TermIdsOf(getSessionTerms(sid))

C36_SnapshotConsistent ==
    /\ disk[CURRENT_SESSION_ID] # None
    /\ disk[CURRENT_ANALYSIS_TERMS] # None
    /\ saves = {}
    => TermsOfSession(disk[CURRENT_ANALYSIS_TERMS][1], disk[CURRENT_SESSION_ID][1])


(***************************************************************************)
(* C37.  No lost update in the stored session list: when two               *)
(* saveSessionLocally calls for different sessions overlap, each reading   *)
(* the list and then writing it, the stored list holds both sessions once  *)
(* both have written.                                                      *)
(***************************************************************************)
HasSession(list, sid) == \E i \in 1..Len(list) : list[i].session_id = sid

\* Call c writes right after the write of another saveSessionLocally,
\* which came after c had read the list.
C37_SecondWrite(c) ==
    /\ SaveSessionWrite(c)
    /\ event.name = "saveSessionLocally"
    /\ event.slot # c
    /\ event.id # rcalls[c].id

C37_NoLostUpdate ==
    [][\A c \in RepoSlots :
          C37_SecondWrite(c)
             => /\ HasSession(getLocalSessions(disk'), rcalls[c].id)
                /\ HasSession(getLocalSessions(disk'), event.id)]_vars


(***************************************************************************)
(* C38.  clearSession wins over pending persistence: however the deletes   *)
(* of clearSession interleave with the writes of a saveSessionData run     *)
(* that started before it, once both have finished none of the three       *)
(* snapshot keys is stored, so a restart after a clear restores nothing.   *)
(***************************************************************************)
SnapshotAbsent(d) ==
    /\ d[CURRENT_SESSION_ID] = None
    /\ d[CURRENT_ANALYSIS_TERMS] = None
    /\ d[CURRENT_SESSION_DETAILS] = None

\* The step is the last delete of clearSession or the last write of a run,
\* it leaves no clearSession and no run in progress, and the state is still
\* the cleared one: no session was loaded since.
C38_BothFinished ==
    /\ \/ \E k \in 1..3 : ClearSessionDelete(k)
       \/ \E run \in saves : SaveSessionData(run)
    /\ clears' = <<0, 0, 0>>
    /\ saves' = {}
    /\ st'.sessionId = 0

C38_ClearWins ==
    [][C38_BothFinished => SnapshotAbsent(disk')]_vars


(***************************************************************************)
(* C39.  Busy-flag accuracy: isTermProcessing[t] is true whenever an       *)
(* askQuestionAboutTerm or confirmTermModification call on term t is at    *)
(* the await of its API call, and a step of an operation on term t never   *)
(* changes the flag of another term.                                       *)
(***************************************************************************)
FlagOn(map, termId) == termId \in DOMAIN map /\ map[termId]

C39_FlagWhileInFlight(s, running) ==
    \A c \in Slots :
        running[c].pc \in {"askQuestion", "confirmTermModification"}
           => FlagOn(s.isTermProcessing, running[c].termId)

C39_OtherFlagsKept(c) ==
    (/\ calls[c].op \in {"ask", "confirm"}
     /\ calls'[c] # calls[c]
     /\ UNCHANGED <<clears, budget>>)
    => \A u \in TermIds \ {calls[c].termId} :
          /\ u \in DOMAIN st'.isTermProcessing <=> u \in DOMAIN st.isTermProcessing
          /\ u \in DOMAIN st.isTermProcessing
                => st'.isTermProcessing[u] = st.isTermProcessing[u]

C39_BusyFlagAccurate ==
    [][/\ C39_FlagWhileInFlight(st', calls')
       /\ \A c \in Slots : C39_OtherFlagsKept(c)]_vars


(***************************************************************************)
(* C40.  Failure atomicity of setItemAsync: when a SecureStore write fails *)
(* partway through the storing of a chunked value, setItemAsync throws and *)
(* a later getItemAsync returns the value the key held before the call or  *)
(* nothing, never a truncated value or a mixture of old and new chunks.    *)
(* The empty string counts as nothing.                                     *)
(***************************************************************************)
C40_FailedChunkedSet ==
    /\ sop.name = "set"
    /\ sop.pc = "failed"
    /\ Len(sop.value) > ChunkSize

C40_PutAtomic ==
    C40_FailedChunkedSet => getItemAsync(secureStore) \in putLog \cup {NULL, <<>>}

====
